---- MODULE Spec2Model ----
(***************************************************************************)
(* Position resolution and evaluation gateway of the Chess Study Tool      *)
(* service worker (src/src/background/service-worker.js, the version that  *)
(* starts at line 843 of that file).                                       *)
(*                                                                         *)
(* JavaScript strings are TLA+ strings; a character is a string of length  *)
(* one. JavaScript null / undefined for a string-typed value is the        *)
(* sentinel Null, which no input string equals; a missing array is the     *)
(* empty sequence (the code treats both alike).                            *)
(***************************************************************************)
EXTENDS Integers, Sequences, FiniteSets, TLC

Null == "<null>"

(***************************************************************************)
(* String primitives                                                       *)
(***************************************************************************)
CharAt(s, i) == SubSeq(s, i, i)

\* s.includes(c) for a single character c
HasChar(s, c) == \E i \in 1..Len(s) : CharAt(s, i) = c

\* s.includes(sub)
Includes(s, sub) ==
  \E i \in 1..(Len(s) - Len(sub) + 1) : SubSeq(s, i, i + Len(sub) - 1) = sub

UpperChars == "ABCDEFGHIJKLMNOPQRSTUVWXYZ"
LowerChars == "abcdefghijklmnopqrstuvwxyz"

LowerChar(c) ==
  IF HasChar(UpperChars, c)
    THEN LET i == CHOOSE k \in 1..26 : CharAt(UpperChars, k) = c
         IN  CharAt(LowerChars, i)
    ELSE c

RECURSIVE MapLower(_, _)
MapLower(s, i) ==
  IF i > Len(s) THEN "" ELSE LowerChar(CharAt(s, i)) \o MapLower(s, i + 1)

toLowerCase(s) == MapLower(s, 1)

\* char === char.toUpperCase(), for the piece letters the code applies it to
IsUpperChar(c) == HasChar(UpperChars, c)

IsSpace(c) == c \in {" ", "\t", "\n"}

RECURSIVE TrimLeft(_)
TrimLeft(s) ==
  IF Len(s) > 0 /\ IsSpace(CharAt(s, 1)) THEN TrimLeft(SubSeq(s, 2, Len(s))) ELSE s

RECURSIVE TrimRight(_)
TrimRight(s) ==
  IF Len(s) > 0 /\ IsSpace(CharAt(s, Len(s)))
    THEN TrimRight(SubSeq(s, 1, Len(s) - 1)) ELSE s

trim(s) == TrimRight(TrimLeft(s))

\* s.split(sep) for a single-character separator: empty fields are kept
RECURSIVE SplitFrom(_, _, _, _)
SplitFrom(s, sep, start, i) ==
  IF i > Len(s) THEN << SubSeq(s, start, Len(s)) >>
  ELSE IF CharAt(s, i) = sep
    THEN << SubSeq(s, start, i - 1) >> \o SplitFrom(s, sep, i + 1, i + 1)
    ELSE SplitFrom(s, sep, start, i + 1)

split(s, sep) == SplitFrom(s, sep, 1, 1)

\* s.split(/\s+/).filter(Boolean): the maximal runs of non-space characters
RECURSIVE WordsFrom(_, _, _)
WordsFrom(s, start, i) ==
  IF i > Len(s)
    THEN IF start < i THEN << SubSeq(s, start, Len(s)) >> ELSE << >>
  ELSE IF IsSpace(CharAt(s, i))
    THEN (IF start < i THEN << SubSeq(s, start, i - 1) >> ELSE << >>)
         \o WordsFrom(s, i + 1, i + 1)
    ELSE WordsFrom(s, start, i + 1)

splitWhitespace(s) == WordsFrom(s, 1, 1)

\* parts.join(sep)
RECURSIVE join(_, _)
join(parts, sep) ==
  IF Len(parts) = 0 THEN ""
  ELSE IF Len(parts) = 1 THEN parts[1]
  ELSE parts[1] \o sep \o join(Tail(parts), sep)

\* parts[i] with JavaScript's undefined for an index past the end
Part(parts, i) == IF i <= Len(parts) THEN parts[i] ELSE Null

Digits == "0123456789"

IsDigit(c) == Len(c) = 1 /\ HasChar(Digits, c)

\* parseInt(c) for a single digit character
DigitValue(c) == (CHOOSE k \in 1..10 : CharAt(Digits, k) = c) - 1

\* /^\d+$/.test(s); undefined is coerced to "undefined" and fails the test
IsDigitString(s) ==
  s /= Null /\ Len(s) > 0 /\ \A i \in 1..Len(s) : IsDigit(CharAt(s, i))

(***************************************************************************)
(* validateFEN                                                             *)
(***************************************************************************)
PieceLetters == "pnbrqkPNBRQK"
RunDigits == "12345678"

Invalid(msg) == [valid |-> FALSE, error |-> msg]
Valid == [valid |-> TRUE, error |-> Null]

ZeroCounts ==
  [whiteKings |-> 0, blackKings |-> 0, whitePawns |-> 0, blackPawns |-> 0,
   whitePieces |-> 0, blackPieces |-> 0]

\* the counters after one piece letter
CountPiece(c, char) ==
  [whiteKings  |-> c.whiteKings  + (IF char = "K" THEN 1 ELSE 0),
   blackKings  |-> c.blackKings  + (IF char = "k" THEN 1 ELSE 0),
   whitePawns  |-> c.whitePawns  + (IF char = "P" THEN 1 ELSE 0),
   blackPawns  |-> c.blackPawns  + (IF char = "p" THEN 1 ELSE 0),
   whitePieces |-> c.whitePieces + (IF IsUpperChar(char) THEN 1 ELSE 0),
   blackPieces |-> c.blackPieces + (IF IsUpperChar(char) THEN 0 ELSE 1)]

\* the inner loop over the characters of one rank, then the rank's sum
RECURSIVE ScanRank(_, _, _, _, _)
ScanRank(rank, rankNum, j, squares, c) ==
  IF j > Len(rank) THEN
    IF squares /= 8
      THEN [error |-> "Rank " \o ToString(rankNum) \o " has " \o ToString(squares)
                      \o " squares, should have 8", counts |-> c]
      ELSE [error |-> Null, counts |-> c]
  ELSE LET char == CharAt(rank, j) IN
    IF HasChar(RunDigits, char)
      THEN ScanRank(rank, rankNum, j + 1, squares + DigitValue(char), c)
    ELSE IF HasChar(PieceLetters, char) THEN
      IF char = "P" /\ rankNum \in {1, 8}
        THEN [error |-> "White pawn on rank " \o ToString(rankNum) \o " is illegal",
              counts |-> c]
      ELSE IF char = "p" /\ rankNum \in {1, 8}
        THEN [error |-> "Black pawn on rank " \o ToString(rankNum) \o " is illegal",
              counts |-> c]
      ELSE ScanRank(rank, rankNum, j + 1, squares + 1, CountPiece(c, char))
    ELSE [error |-> "Invalid character '" \o char \o "' in rank " \o ToString(rankNum),
          counts |-> c]

\* the outer loop run from rank 1 up to rank 8
RECURSIVE ScanRanksFromRank1(_, _, _)
ScanRanksFromRank1(ranks, i, c) ==
  IF i >= 8 THEN [error |-> Null, counts |-> c]
  ELSE LET r == ScanRank(ranks[8 - i], i + 1, 1, 0, c) IN
    IF r.error /= Null THEN r ELSE ScanRanksFromRank1(ranks, i + 1, r.counts)

\* the outer loop, i = 0..7, rankNum = 8 - i
RECURSIVE ScanRanks(_, _, _)
ScanRanks(ranks, i, c) ==
  IF i >= 8 THEN [error |-> Null, counts |-> c]
  ELSE LET r == ScanRank(ranks[i + 1], 8 - i, 1, 0, c) IN
    IF r.error /= Null THEN r ELSE ScanRanks(ranks, i + 1, r.counts)

\* CountChecks with the two king checks left out
CountChecksWithoutKings(c, turn) ==
  IF c.whitePawns > 8
    THEN Invalid("White has " \o ToString(c.whitePawns) \o " pawns, maximum is 8")
  ELSE IF c.blackPawns > 8
    THEN Invalid("Black has " \o ToString(c.blackPawns) \o " pawns, maximum is 8")
  ELSE IF c.whitePieces > 16
    THEN Invalid("White has " \o ToString(c.whitePieces) \o " pieces, maximum is 16")
  ELSE IF c.blackPieces > 16
    THEN Invalid("Black has " \o ToString(c.blackPieces) \o " pieces, maximum is 16")
  ELSE IF turn /= "" /\ turn \notin {"w", "b"}
    THEN Invalid("Invalid turn '" \o turn \o "', should be 'w' or 'b'")
  ELSE Valid

\* the checks after the loop: kings, pawns, pieces, then the turn field
CountChecks(c, turn) ==
  IF c.whiteKings /= 1
    THEN Invalid("Must have exactly 1 white King, found " \o ToString(c.whiteKings))
  ELSE IF c.blackKings /= 1
    THEN Invalid("Must have exactly 1 black King, found " \o ToString(c.blackKings))
  ELSE IF c.whitePawns > 8
    THEN Invalid("White has " \o ToString(c.whitePawns) \o " pawns, maximum is 8")
  ELSE IF c.blackPawns > 8
    THEN Invalid("Black has " \o ToString(c.blackPawns) \o " pawns, maximum is 8")
  ELSE IF c.whitePieces > 16
    THEN Invalid("White has " \o ToString(c.whitePieces) \o " pieces, maximum is 16")
  ELSE IF c.blackPieces > 16
    THEN Invalid("Black has " \o ToString(c.blackPieces) \o " pieces, maximum is 16")
  ELSE IF turn /= "" /\ turn \notin {"w", "b"}
    THEN Invalid("Invalid turn '" \o turn \o "', should be 'w' or 'b'")
  ELSE Valid

validateFEN(fen) ==
  IF fen = Null \/ fen = "" THEN Invalid("FEN is empty or not a string")
  ELSE LET parts == split(trim(fen), " ") IN
    IF Len(parts) < 2
      THEN Invalid("FEN should have at least 2 parts, got " \o ToString(Len(parts)))
    ELSE LET ranks == split(parts[1], "/") IN
      IF Len(ranks) /= 8
        THEN Invalid("Board should have 8 ranks, got " \o ToString(Len(ranks)))
      ELSE LET scan == ScanRanks(ranks, 0, ZeroCounts) IN
        IF scan.error /= Null THEN Invalid(scan.error)
        ELSE CountChecks(scan.counts, parts[2])

(***************************************************************************)
(* Piece lists                                                             *)
(***************************************************************************)
Files == "abcdefgh"

FileIndex(ch) == (CHOOSE k \in 1..8 : CharAt(Files, k) = ch) - 1

\* the loop of validatePiecesArray over entries i.. with the state so far
RECURSIVE ScanPieces(_, _, _, _, _)
ScanPieces(pieces, i, seen, c, cleaned) ==
  IF i > Len(pieces) THEN [error |-> Null, counts |-> c, cleaned |-> cleaned]
  ELSE LET sq == trim(toLowerCase(pieces[i].square))
           pc == trim(pieces[i].piece) IN
    IF \/ Len(sq) /= 2
       \/ ~HasChar(Files, CharAt(sq, 1))
       \/ ~HasChar(RunDigits, CharAt(sq, 2))
      THEN ScanPieces(pieces, i + 1, seen, c, cleaned)
    ELSE IF Len(pc) /= 1 \/ ~HasChar(PieceLetters, pc)
      THEN ScanPieces(pieces, i + 1, seen, c, cleaned)
    ELSE IF sq \in seen
      THEN ScanPieces(pieces, i + 1, seen, c, cleaned)
    ELSE LET rank == DigitValue(CharAt(sq, 2)) IN
      IF pc = "P" /\ rank \in {1, 8}
        THEN [error |-> "White pawn on rank " \o ToString(rank) \o " is illegal",
              counts |-> c, cleaned |-> cleaned]
      ELSE IF pc = "p" /\ rank \in {1, 8}
        THEN [error |-> "Black pawn on rank " \o ToString(rank) \o " is illegal",
              counts |-> c, cleaned |-> cleaned]
      ELSE ScanPieces(pieces, i + 1, seen \cup {sq}, CountPiece(c, pc),
                      Append(cleaned, [square |-> sq, piece |-> pc]))

InvalidPieces(msg) == [valid |-> FALSE, error |-> msg, pieces |-> << >>]

validatePiecesArray(pieces) ==
  IF Len(pieces) = 0 THEN InvalidPieces("Pieces array is empty or not an array")
  ELSE LET scan == ScanPieces(pieces, 1, {}, ZeroCounts, << >>)
           c == scan.counts IN
    IF scan.error /= Null THEN InvalidPieces(scan.error)
    ELSE IF Len(scan.cleaned) = 0 THEN InvalidPieces("No valid piece entries found")
    ELSE IF c.whiteKings /= 1
      THEN InvalidPieces("Must have exactly 1 white King, found " \o ToString(c.whiteKings))
    ELSE IF c.blackKings /= 1
      THEN InvalidPieces("Must have exactly 1 black King, found " \o ToString(c.blackKings))
    ELSE IF c.whitePawns > 8
      THEN InvalidPieces("White has " \o ToString(c.whitePawns) \o " pawns, maximum is 8")
    ELSE IF c.blackPawns > 8
      THEN InvalidPieces("Black has " \o ToString(c.blackPawns) \o " pawns, maximum is 8")
    ELSE [valid |-> TRUE, error |-> Null, pieces |-> scan.cleaned]

\* getFenPieceAtSquare: the scan of one rank string for column file
RECURSIVE PieceInRank(_, _, _, _)
PieceInRank(rankStr, file, j, col) ==
  IF j > Len(rankStr) THEN Null
  ELSE LET ch == CharAt(rankStr, j) IN
    IF HasChar(RunDigits, ch)
      THEN IF col + DigitValue(ch) > file THEN Null
           ELSE PieceInRank(rankStr, file, j + 1, col + DigitValue(ch))
    ELSE IF col = file THEN ch
    ELSE IF col + 1 > file THEN Null
    ELSE PieceInRank(rankStr, file, j + 1, col + 1)

getFenPieceAtSquare(boardPart, square) ==
  IF boardPart = Null \/ boardPart = "" \/ Len(square) /= 2 THEN Null
  ELSE IF ~HasChar(Files, CharAt(square, 1)) \/ ~HasChar(RunDigits, CharAt(square, 2))
    THEN Null
  ELSE LET ranks == split(boardPart, "/") IN
    IF Len(ranks) /= 8 THEN Null
    ELSE PieceInRank(ranks[8 - DigitValue(CharAt(square, 2)) + 1],
                     FileIndex(CharAt(square, 1)), 1, 0)

\* castling rights granted for the rooks on their home squares alone
inferCastlingRightsFromRooks(boardPart) ==
  LET white == (IF getFenPieceAtSquare(boardPart, "h1") = "R" THEN "K" ELSE "")
               \o (IF getFenPieceAtSquare(boardPart, "a1") = "R" THEN "Q" ELSE "")
      black == (IF getFenPieceAtSquare(boardPart, "h8") = "r" THEN "k" ELSE "")
               \o (IF getFenPieceAtSquare(boardPart, "a8") = "r" THEN "q" ELSE "")
  IN IF white \o black = "" THEN "-" ELSE white \o black

inferCastlingRightsFromPosition(boardPart) ==
  LET white == IF getFenPieceAtSquare(boardPart, "e1") = "K"
                 THEN (IF getFenPieceAtSquare(boardPart, "h1") = "R" THEN "K" ELSE "")
                      \o (IF getFenPieceAtSquare(boardPart, "a1") = "R" THEN "Q" ELSE "")
                 ELSE ""
      black == IF getFenPieceAtSquare(boardPart, "e8") = "k"
                 THEN (IF getFenPieceAtSquare(boardPart, "h8") = "r" THEN "k" ELSE "")
                      \o (IF getFenPieceAtSquare(boardPart, "a8") = "r" THEN "q" ELSE "")
                 ELSE ""
  IN IF white \o black = "" THEN "-" ELSE white \o black

\* the 8x8 array after placing the entries in order: the last entry for a
\* square stays
RECURSIVE PlacedAt(_, _, _)
PlacedAt(pieces, i, sq) ==
  IF i = 0 THEN Null
  ELSE IF pieces[i].square = sq THEN pieces[i].piece
  ELSE PlacedAt(pieces, i - 1, sq)

\* run-length encoding of one row; at(f) is the content of file f = 0..7
RECURSIVE EncodeRank(_, _, _)
EncodeRank(at, f, emptyCount) ==
  IF f > 7 THEN (IF emptyCount > 0 THEN ToString(emptyCount) ELSE "")
  ELSE IF at[f] = Null THEN EncodeRank(at, f + 1, emptyCount + 1)
  ELSE (IF emptyCount > 0 THEN ToString(emptyCount) ELSE "") \o at[f]
       \o EncodeRank(at, f + 1, 0)

buildFENFromPieces(pieces, turn) ==
  LET rankString(r) ==
        EncodeRank([f \in 0..7 |->
                      PlacedAt(pieces, Len(pieces), CharAt(Files, f + 1) \o ToString(r))],
                   0, 0)
      boardPart == join([k \in 1..8 |-> rankString(9 - k)], "/")
      castling == inferCastlingRightsFromPosition(boardPart)
      safeTurn == IF turn \in {"w", "b"} THEN turn ELSE "w"
  IN boardPart \o " " \o safeTurn \o " " \o castling \o " - 0 1"

(***************************************************************************)
(* normalizeFEN                                                            *)
(***************************************************************************)
RECURSIVE FilterChars(_, _, _)
FilterChars(s, allowed, i) ==
  IF i > Len(s) THEN ""
  ELSE (IF HasChar(allowed, CharAt(s, i)) THEN CharAt(s, i) ELSE "")
       \o FilterChars(s, allowed, i + 1)

\* /^[a-h][36]$/.test(s)
IsEnPassantSquare(s) ==
  s /= Null /\ Len(s) = 2 /\ HasChar(Files, CharAt(s, 1)) /\ CharAt(s, 2) \in {"3", "6"}

\* a normalization that keeps whatever en-passant field it is given
normalizeFENKeepsEnPassant(fen, inferCastlingWhenMissing) ==
  IF fen = Null \/ fen = "" THEN ""
  ELSE LET parts == splitWhitespace(fen) IN
    IF Len(parts) = 0 THEN ""
    ELSE LET position == parts[1]
             turn == IF Part(parts, 2) \in {"w", "b"} THEN parts[2] ELSE "w"
             castling ==
               IF Len(parts) >= 3
                 THEN IF parts[3] /= "-"
                        THEN LET validCastling == FilterChars(parts[3], "KQkq", 1)
                             IN IF validCastling = "" THEN "-" ELSE validCastling
                        ELSE "-"
               ELSE IF inferCastlingWhenMissing
                 THEN inferCastlingRightsFromPosition(position)
               ELSE "-"
             enPassant == IF Len(parts) >= 4 THEN parts[4] ELSE "-"
             halfmove == IF IsDigitString(Part(parts, 5)) THEN parts[5] ELSE "0"
             fullmove == IF IsDigitString(Part(parts, 6)) THEN parts[6] ELSE "1"
         IN position \o " " \o turn \o " " \o castling \o " " \o enPassant
            \o " " \o halfmove \o " " \o fullmove

normalizeFEN(fen, inferCastlingWhenMissing) ==
  IF fen = Null \/ fen = "" THEN ""
  ELSE LET parts == splitWhitespace(fen) IN
    IF Len(parts) = 0 THEN ""
    ELSE LET position == parts[1]
             turn == IF Part(parts, 2) \in {"w", "b"} THEN parts[2] ELSE "w"
             castling ==
               IF Len(parts) >= 3
                 THEN IF parts[3] /= "-"
                        THEN LET validCastling == FilterChars(parts[3], "KQkq", 1)
                             IN IF validCastling = "" THEN "-" ELSE validCastling
                        ELSE "-"
               ELSE IF inferCastlingWhenMissing
                 THEN inferCastlingRightsFromPosition(position)
               ELSE "-"
             enPassant == IF IsEnPassantSquare(Part(parts, 4)) THEN parts[4] ELSE "-"
             halfmove == IF IsDigitString(Part(parts, 5)) THEN parts[5] ELSE "0"
             fullmove == IF IsDigitString(Part(parts, 6)) THEN parts[6] ELSE "1"
         IN position \o " " \o turn \o " " \o castling \o " " \o enPassant
            \o " " \o halfmove \o " " \o fullmove

(***************************************************************************)
(* Vision result evaluation                                                *)
(***************************************************************************)
NoFenData == [ok |-> FALSE, raw |-> Null, fenWithTurn |-> Null, normalized |-> Null]

buildFenForAnalysis(result, inferCastlingWhenMissing) ==
  IF result.fen = Null \/ result.fen = "" THEN NoFenData
  ELSE LET raw == trim(result.fen) IN
    IF raw = "" THEN NoFenData
    ELSE LET parts == split(raw, " ")
             fenWithTurn ==
               IF Len(parts) = 1
                 THEN raw \o " " \o (IF result.turn \in {"w", "b"} THEN result.turn ELSE "w")
                 ELSE raw
         IN [ok |-> TRUE, raw |-> raw, fenWithTurn |-> fenWithTurn,
             normalized |-> normalizeFEN(fenWithTurn, inferCastlingWhenMissing)]

\* the first field of a full encoding, or '(none)' (the value the code compares)
BoardOf(fen) ==
  IF fen = Null THEN "(none)"
  ELSE LET b == split(fen, " ")[1] IN IF b = "" THEN "(none)" ELSE b

\* piecesResult of evaluateVisionResults: the encoding rebuilt from the piece
\* list when the list and the rebuilt encoding both validate, else null
PiecesResult(result) ==
  LET rebuilt(rebuiltFen, rebuiltValidation) ==
        IF rebuiltValidation.valid
          THEN [ok |-> TRUE, fen |-> rebuiltFen, validation |-> rebuiltValidation]
          ELSE [ok |-> FALSE, fen |-> Null, validation |-> Valid]
      validated(rebuiltFen) == rebuilt(rebuiltFen, validateFEN(rebuiltFen))
      checkedList(piecesValidation) ==
        IF ~piecesValidation.valid THEN [ok |-> FALSE, fen |-> Null, validation |-> Valid]
        ELSE validated(buildFENFromPieces(piecesValidation.pieces, result.turn))
  IN checkedList(validatePiecesArray(result.pieces))

\* the last return of evaluateVisionResults with the piece list's diagnostic
\* taken when it names a king or a pawn
NeitherValidInformative(result, fenData) ==
  LET piecesError == validatePiecesArray(result.pieces).error
      fenValidation == IF fenData.ok THEN validateFEN(fenData.normalized)
                       ELSE Invalid("No FEN provided") IN
  [fen |-> result.fen, turn |-> result.turn,
   fenForStockfish |-> fenData.fenWithTurn,
   normalizedFen |-> fenData.normalized,
   validation |-> IF Includes(piecesError, "King") \/ Includes(piecesError, "pawn")
                    THEN Invalid(piecesError) ELSE fenValidation,
   recoveryMethod |-> Null]

\* the last return of evaluateVisionResults: neither candidate is valid
NeitherValid(result, fenData) ==
  [fen |-> result.fen, turn |-> result.turn,
   fenForStockfish |-> fenData.fenWithTurn,
   normalizedFen |-> fenData.normalized,
   validation |-> IF fenData.ok THEN validateFEN(fenData.normalized)
                  ELSE Invalid("No FEN provided"),
   recoveryMethod |-> Null]

\* evaluateVisionResults without the piece list: the run-length field decides
evaluateVisionResultsFenOnly(result, inferCastlingWhenMissing) ==
  NeitherValid(result, buildFenForAnalysis(result, inferCastlingWhenMissing))

\* evaluateVisionResults applied to the one result handleAnalysis passes
evaluateVisionResults(result, inferCastlingWhenMissing) ==
  LET evaluated(fenData, fenValid, piecesResult) ==
        LET match == BoardOf(fenData.normalized) = BoardOf(piecesResult.fen)
            useFen == [fen |-> result.fen, turn |-> result.turn,
                       fenForStockfish |-> fenData.fenWithTurn,
                       normalizedFen |-> fenData.normalized,
                       validation |-> Valid, recoveryMethod |-> Null]
            usePieces == [fen |-> result.fen, turn |-> result.turn,
                          fenForStockfish |-> piecesResult.fen,
                          normalizedFen |-> piecesResult.fen,
                          validation |-> piecesResult.validation,
                          recoveryMethod |-> "pieces-array"]
        IN IF fenValid /\ piecesResult.ok /\ match THEN useFen
           ELSE IF fenValid /\ piecesResult.ok /\ ~match THEN usePieces
           ELSE IF fenValid THEN useFen
           ELSE IF piecesResult.ok THEN usePieces
           ELSE NeitherValid(result, fenData)
      withFen(fenData) ==
        evaluated(fenData, fenData.ok /\ validateFEN(fenData.normalized).valid,
                  PiecesResult(result))
  IN withFen(buildFenForAnalysis(result, inferCastlingWhenMissing))

\* the value analyzeWithVision returns for a parsed JSON object
visionReturn(json) ==
  [fen |-> json.fen,
   turn |-> IF json.turn /= Null /\ json.turn /= "" THEN json.turn
            ELSE IF json.fen /= Null /\ Len(split(json.fen, " ")) >= 2
                    /\ split(json.fen, " ")[2] /= ""
              THEN split(json.fen, " ")[2]
            ELSE "w",
   pieces |-> json.pieces]

\* the value analyzeWithVision returns when no JSON object could be parsed
visionParseFailure == [fen |-> Null, turn |-> Null, pieces |-> << >>]

\* turn reconciliation of handleAnalysis / tryDomExtraction
AdjustTurn(fenForStockfish, userColor) ==
  IF userColor = Null \/ fenForStockfish = Null \/ fenForStockfish = ""
    THEN [fen |-> fenForStockfish, analysisNote |-> Null]
  ELSE LET parts == split(fenForStockfish, " ")
           fenTurn == Part(parts, 2)
       IN IF fenTurn /= Null /\ fenTurn /= "" /\ fenTurn /= userColor
            THEN [fen |-> join([parts EXCEPT ![2] = userColor], " "),
                  analysisNote |-> "Turn adjusted to "
                     \o (IF userColor = "w" THEN "White" ELSE "Black")
                     \o " (your color)"]
            ELSE [fen |-> fenForStockfish, analysisNote |-> Null]

(***************************************************************************)
(* Page reading (chess.com)                                                *)
(***************************************************************************)
\* the piece elements of the page after PIECE_MAP and the square-NN class
\* are read: [square |-> "e2", piece |-> "P"] with file and rank in 1..8
extractPositionFromDOM(page) ==
  IF Len(page.pieces) = 0 THEN [ok |-> FALSE, fen |-> Null, fullFen |-> Null, turn |-> Null]
  ELSE IF ~(\E i \in 1..Len(page.pieces) : page.pieces[i].piece = "K")
          \/ ~(\E i \in 1..Len(page.pieces) : page.pieces[i].piece = "k")
    THEN [ok |-> FALSE, fen |-> Null, fullFen |-> Null, turn |-> Null]
  ELSE LET rankString(r) ==
             EncodeRank([f \in 0..7 |->
                           PlacedAt(page.pieces, Len(page.pieces),
                                    CharAt(Files, f + 1) \o ToString(r))], 0, 0)
           boardFen == join([k \in 1..8 |-> rankString(9 - k)], "/")
           at(sq) == PlacedAt(page.pieces, Len(page.pieces), sq)
           white == IF at("e1") = "K"
                      THEN (IF at("h1") = "R" THEN "K" ELSE "")
                           \o (IF at("a1") = "R" THEN "Q" ELSE "")
                      ELSE ""
           black == IF at("e8") = "k"
                      THEN (IF at("h8") = "r" THEN "k" ELSE "")
                           \o (IF at("a8") = "r" THEN "q" ELSE "")
                      ELSE ""
           castling == IF white \o black = "" THEN "-" ELSE white \o black
       IN [ok |-> TRUE, fen |-> boardFen,
           fullFen |-> boardFen \o " " \o page.turn \o " " \o castling \o " - 0 1",
           turn |-> page.turn]

NoDomResult ==
  [ok |-> FALSE, fen |-> Null, fenForStockfish |-> Null, turn |-> Null,
   analysisNote |-> Null]

\* a page reading that returns its candidate without validating it
tryDomExtractionUnvalidated(tab, userColor) ==
  IF tab.site /= "chess.com" THEN NoDomResult
  ELSE IF tab.throws THEN NoDomResult
  ELSE LET pos == extractPositionFromDOM(tab.page) IN
    IF ~pos.ok THEN NoDomResult
    ELSE LET adj == AdjustTurn(normalizeFEN(pos.fullFen, TRUE), userColor) IN
      [ok |-> TRUE, fen |-> pos.fen, fenForStockfish |-> adj.fen,
       turn |-> pos.turn, analysisNote |-> adj.analysisNote]

\* tryDomExtraction for a tab: site is the tab's kind, page what the injected
\* reader sees
tryDomExtraction(tab, userColor) ==
  IF tab.site /= "chess.com" THEN NoDomResult
  ELSE IF tab.throws THEN NoDomResult
  ELSE LET pos == extractPositionFromDOM(tab.page) IN
    IF ~pos.ok THEN NoDomResult
    ELSE LET normalized == normalizeFEN(pos.fullFen, TRUE)
             validation == validateFEN(normalized) IN
      IF ~validation.valid THEN NoDomResult
      ELSE LET adj == AdjustTurn(normalized, userColor) IN
        [ok |-> TRUE, fen |-> pos.fen, fenForStockfish |-> adj.fen,
         turn |-> pos.turn, analysisNote |-> adj.analysisNote]

(***************************************************************************)
(* Move selection                                                          *)
(***************************************************************************)
\* The evaluation of a move is a JavaScript number or string: a number is
\* kept in centipawns (the code's evaluation * 100)
Number(cp) == [kind |-> "number", text |-> "", cp |-> cp]
String(text) == [kind |-> "string", text |-> text, cp |-> 0]

\* null where a move is expected
NoMove == [move |-> Null, evaluation |-> Number(0)]

\* an array of moves; NoArray is undefined or null where one is expected
Array(items) == [defined |-> TRUE, items |-> items]
NoArray == [defined |-> FALSE, items |-> << >>]

\* a mate test that takes only a mate the side to move delivers
IsMateEvaluationWinning(evaluation) ==
  /\ evaluation.kind = "string"
  /\ Len(evaluation.text) >= 2
  /\ CharAt(evaluation.text, 1) = "M"
  /\ CharAt(evaluation.text, 2) /= "-"

\* typeof evaluation === 'string' && evaluation.startsWith('M')
IsMateEvaluation(evaluation) ==
  /\ evaluation.kind = "string"
  /\ Len(evaluation.text) >= 1
  /\ CharAt(evaluation.text, 1) = "M"

\* data.pvs.map(...) of getLichessCloudEval: the first move of the variation
\* and 'M<mate>' when pv.mate is present, else (pv.cp || 0) / 100
LichessMove(pv) ==
  [move |-> split(pv.moves, " ")[1],
   evaluation |-> IF pv.hasMate THEN String("M" \o ToString(pv.mate))
                  ELSE Number(pv.cp)]

\* a list of moves with the last variation first
LichessMovesReversed(pvs) ==
  [i \in 1..Len(pvs) |-> LichessMove(pvs[Len(pvs) + 1 - i])]

LichessMoves(pvs) == [i \in 1..Len(pvs) |-> LichessMove(pvs[i])]

\* The indices the cumulative walk can stop at: every weight exp(-loss/tau)
\* is a probability share, and index 0 is kept when no share is reached
SampledIndices(moves, targetElo) == 1..Len(moves)

\* a loss that keeps its sign
centipawnLossSigned(bestCp, cp) == bestCp - cp

\* a loss measured from three centipawns above the best move
centipawnLossOffset(bestCp, cp) ==
  IF bestCp + 3 - cp >= 0 THEN bestCp + 3 - cp ELSE 0

\* Math.max(0, bestCp - cp)
centipawnLoss(bestCp, cp) == IF bestCp - cp >= 0 THEN bestCp - cp ELSE 0

\* a base temperature that does not fall with the rating
baseTemperatureFlat(targetElo) == 10400

\* a base temperature that rises with the rating
baseTemperatureRising(targetElo) ==
  IF 8 * targetElo >= 500 THEN 8 * targetElo ELSE 500

\* Math.max(5, 200 - 0.08 * targetElo), in units of 1/100
baseTemperature(targetElo) ==
  IF 20000 - 8 * targetElo >= 500 THEN 20000 - 8 * targetElo ELSE 500

\* no sampling took place
NoSampling ==
  [losses |-> << >>, tau |-> 0, weights |-> << >>, sum |-> 0, probs |-> << >>,
   selectedIndex |-> 0]

\* The sampling part of selectHumanMove in fixed point.  jitter and roll are
\* the two Math.random() outcomes in units of 1/10000 (0..9999); losses are
\* centipawns; tau is in units of 1/1000; weights and probs are in units of
\* 1/10000, Math.exp being computed by its power series.  selectedIndex is
\* the index the cumulative walk stops at, 1 for the first move, which is
\* also what stays when the walk reaches no share.
softmaxSampling(moves, targetElo, jitter, roll) ==
  LET n == Len(moves)
      cpOf(m) == IF m.evaluation.kind = "number" THEN m.evaluation.cp ELSE 0
      bestCp == cpOf(moves[1])
      loss(i) == centipawnLoss(bestCp, cpOf(moves[i]))
      tau == (baseTemperature(targetElo) * (8500 + (3 * jitter) \div 10)) \div 1000
      RECURSIVE series(_, _, _)
      series(x, k, term) ==
        IF term = 0 THEN 0
        ELSE term + series(x, k + 1, (term * x) \div (1000 * k))
      exp(x) == series(x, 1, 10000)
      weight(i) == (10000 * 10000) \div exp((loss(i) * 1000000) \div tau)
      RECURSIVE total(_)
      total(i) == IF i = 0 THEN 0 ELSE weight(i) + total(i - 1)
      prob(i, sum) == (weight(i) * 10000) \div sum
      RECURSIVE walk(_, _, _)
      walk(i, cumulative, sum) ==
        IF i > n THEN 1
        ELSE IF roll <= cumulative + prob(i, sum) THEN i
        ELSE walk(i + 1, cumulative + prob(i, sum), sum)
      result(sum) ==
        [losses |-> [i \in 1..n |-> loss(i)], tau |-> tau,
         weights |-> [i \in 1..n |-> weight(i)], sum |-> sum,
         probs |-> [i \in 1..n |-> prob(i, sum)],
         selectedIndex |-> walk(1, 0, sum)]
  IN result(total(n))

\* a selection that reports the sampled move as the engine's best
selectHumanMoveBestIsSelected(moves, targetElo, sampled) ==
  IF ~moves.defined \/ Len(moves.items) <= 1
    THEN LET only == IF moves.defined /\ Len(moves.items) = 1
                       THEN moves.items[1] ELSE NoMove
         IN [selected |-> only, engineBest |-> only, allMoves |-> moves.items,
             randomDraws |-> 0]
  ELSE IF IsMateEvaluation(moves.items[1].evaluation)
    THEN [selected |-> moves.items[1], engineBest |-> moves.items[1],
          allMoves |-> moves.items, randomDraws |-> 0]
  ELSE [selected |-> moves.items[sampled], engineBest |-> moves.items[sampled],
        allMoves |-> moves.items, randomDraws |-> 2]

\* a selection that passes through only an empty or missing list
selectHumanMoveSamplesSingle(moves, targetElo, sampled) ==
  IF ~moves.defined \/ Len(moves.items) = 0
    THEN [selected |-> NoMove, engineBest |-> NoMove, allMoves |-> moves.items,
          randomDraws |-> 0]
  ELSE IF IsMateEvaluation(moves.items[1].evaluation)
    THEN [selected |-> moves.items[1], engineBest |-> moves.items[1],
          allMoves |-> moves.items, randomDraws |-> 0]
  ELSE [selected |-> moves.items[sampled], engineBest |-> moves.items[1],
        allMoves |-> moves.items, randomDraws |-> 2]

\* selectHumanMove with the sampled index as the random outcome; randomDraws
\* is the number of Math.random() calls it made
selectHumanMove(moves, targetElo, sampled) ==
  IF ~moves.defined \/ Len(moves.items) <= 1
    THEN LET only == IF moves.defined /\ Len(moves.items) = 1
                       THEN moves.items[1] ELSE NoMove
         IN [selected |-> only, engineBest |-> only, allMoves |-> moves.items,
             randomDraws |-> 0]
  ELSE IF IsMateEvaluation(moves.items[1].evaluation)
    THEN [selected |-> moves.items[1], engineBest |-> moves.items[1],
          allMoves |-> moves.items, randomDraws |-> 0]
  ELSE [selected |-> moves.items[sampled], engineBest |-> moves.items[1],
        allMoves |-> moves.items, randomDraws |-> 2]

(***************************************************************************)
(* Program constants and bounds                                            *)
(***************************************************************************)
LICHESS_MIN_INTERVAL == 1000
LICHESS_BACKOFF_TIME == 60000

\* time steps the clock can take between two events, in ms
TimeSteps == {400, 1000, 59600}
\* number of time steps in a run
MaxTicks == 2
\* Date.now() when the service worker starts
StartClock == 100000
\* number of cycles (messages handled) in a run
MaxCycles == 2
MaxOverlaps == 1
\* injections of the content script into one page, clicks on the page and
\* reloads of the extension in a run
MaxInjections == 3
MaxClicks == 2
MaxReloads == 1

\* capture cycles requested in the panel in a run
MaxCaptures == 3
\* longest piece list validated on its own
MaxPieces == 4

(***************************************************************************)
(* Inputs                                                                  *)
(***************************************************************************)
UserColors == {Null, "w", "b"}

BoardA == "4k3/8/8/8/8/8/4P3/4K3"

PiecesA ==
  << [square |-> "e8", piece |-> "k"], [square |-> "e2", piece |-> "P"],
     [square |-> "e1", piece |-> "K"] >>

\* the entries of PiecesA among a malformed square name and a second entry
\* for e2
PiecesDup ==
  << [square |-> "e8", piece |-> "k"], [square |-> "z9", piece |-> "Q"],
     [square |-> "E2 ", piece |-> "P"], [square |-> "e2", piece |-> "Q"],
     [square |-> "e1", piece |-> "K"] >>

PiecesNoKing ==
  << [square |-> "e2", piece |-> "P"], [square |-> "e1", piece |-> "K"] >>

PiecesPawn1 ==
  << [square |-> "e8", piece |-> "k"], [square |-> "e1", piece |-> "P"],
     [square |-> "d1", piece |-> "K"] >>

\* parsed JSON objects of the vision collaborator
VisionJson ==
  { \* both fields valid, same board
    [fen |-> BoardA \o " w - - 0 1", turn |-> "b", pieces |-> PiecesA],
    [fen |-> "4k3/8/8/8/8/8/4P3/4K12 b", turn |-> "b", pieces |-> PiecesA],
    \* both fields valid, boards differ
    [fen |-> "4k3/8/8/8/8/8/3P4/4K3", turn |-> Null, pieces |-> PiecesA],
    \* only the run-length field valid
    [fen |-> BoardA \o " w - - 0 1", turn |-> Null, pieces |-> << >>],
    [fen |-> BoardA \o " w - - 0 1", turn |-> "b", pieces |-> PiecesNoKing],
    [fen |-> BoardA \o "  b", turn |-> "b", pieces |-> << >>],
    [fen |-> BoardA \o "\tb", turn |-> "b", pieces |-> << >>],
    [fen |-> "4k3/8/8/8/8/8/3P4/4K3", turn |-> "b", pieces |-> << >>],
    \* the run-length field valid, the piece list with a malformed square
    \* name and two entries for e2
    [fen |-> "4k3/8/8/8/8/8/3P4/4K3 w", turn |-> "w", pieces |-> PiecesDup],
    \* only the piece list valid
    [fen |-> "4k3/8/8/8/8/8/4P4/4K3 w", turn |-> "b", pieces |-> PiecesA],
    [fen |-> "8/8/8/8/8/8/4P3/4K3 w", turn |-> "b", pieces |-> PiecesA],
    [fen |-> "4k3/8/8/8/8/8/4P3 w", turn |-> "w", pieces |-> PiecesDup],
    [fen |-> Null, turn |-> Null, pieces |-> PiecesA],
    \* neither valid
    [fen |-> "4k3/8/8/8/8/8/4P4/4K3 w", turn |-> "w", pieces |-> PiecesPawn1],
    [fen |-> "4k3/8/8/8/8/8/4P4/4K3 w", turn |-> "b", pieces |-> PiecesNoKing],
    [fen |-> "8/8/8/8/8/8/4P3/4K3 w", turn |-> "b", pieces |-> << >>],
    [fen |-> "4k2P/8/8/8/8/8/8/4K3 w", turn |-> "w", pieces |-> PiecesNoKing],
    [fen |-> "4k3/8/8/8/8/8/4X3/4K3 w", turn |-> "w", pieces |-> << >>],
    [fen |-> Null, turn |-> Null, pieces |-> << >>] }

\* the active tab: its site, whether the injected reader throws, and the
\* piece elements and last-move turn the reader finds
NoPage == [pieces |-> << >>, turn |-> "w"]

Tabs ==
  { [site |-> "other", throws |-> FALSE, page |-> NoPage],
    [site |-> "chess.com", throws |-> TRUE, page |-> NoPage],
    [site |-> "chess.com", throws |-> FALSE, page |-> NoPage],
    [site |-> "chess.com", throws |-> FALSE,
     page |-> [pieces |-> PiecesNoKing, turn |-> "w"]],
    [site |-> "chess.com", throws |-> FALSE,
     page |-> [pieces |-> PiecesPawn1, turn |-> "w"]],
    [site |-> "chess.com", throws |-> FALSE,
     page |-> [pieces |-> PiecesA, turn |-> "w"]],
    [site |-> "chess.com", throws |-> FALSE,
     page |-> [pieces |-> PiecesA \o << [square |-> "h1", piece |-> "R"] >>,
               turn |-> "b"]] }

\* the text typed into the panel for ANALYZE_FEN
FenInputs ==
  { BoardA \o " w - - 0 1", BoardA, "8/8/8/8/8/8/4P3/4K3 w", "" }

MoveE4 == [move |-> "e2e4", evaluation |-> Number(32)]
MoveNf3 == [move |-> "g1f3", evaluation |-> Number(20)]
MoveMate == [move |-> "e2e3", evaluation |-> String("M3")]

\* principal variations of a Lichess answer; hasMate tells whether pv.mate
\* is present
PvE4 == [moves |-> "e2e4 e7e5", hasMate |-> FALSE, mate |-> 0, cp |-> 32]
PvNf3 == [moves |-> "g1f3", hasMate |-> FALSE, mate |-> 0, cp |-> 20]
PvMate == [moves |-> "e2e3 e8d8", hasMate |-> TRUE, mate |-> 3, cp |-> 0]
\* a variation in which the side to move is mated: pv.mate is negative
PvMated == [moves |-> "e1d1 e8e1", hasMate |-> TRUE, mate |-> -2, cp |-> 0]
PvD4 == [moves |-> "d2d4", hasMate |-> FALSE, mate |-> 0, cp |-> 5]
\* the best variation of a worse position: pv.cp is negative
PvKf1 == [moves |-> "e1f1 e8e7", hasMate |-> FALSE, mate |-> 0, cp |-> -40]
\* outcomes of Math.random(), in units of 1/10000
RandomDraws == {0, 2500, 5000, 7500, 9999}

\* what the primary evaluation collaborator answers: an HTTP status, an
\* answer without variations, or ranked variations
LichessAnswers ==
  { [status |-> 429, moves |-> << >>], [status |-> 404, moves |-> << >>],
    [status |-> 500, moves |-> << >>], [status |-> 200, moves |-> << >>],
    [status |-> 200, moves |-> << PvE4 >>],
    [status |-> 200, moves |-> << PvE4, PvNf3 >>],
    [status |-> 200, moves |-> << PvMate, PvNf3 >>] }

\* what the secondary collaborator answers: an error, no move, or one move
ChessApiAnswers ==
  { [ok |-> FALSE, moves |-> << >>], [ok |-> TRUE, moves |-> << >>],
    [ok |-> TRUE, moves |-> << MoveE4 >>] }

TargetElos == {800, 1500, 2400}

\* boards for validateFEN on its own: ranks 8, 7, 3, 2 and 1 are drawn from
\* the sets below, the ranks between are empty, and a short board lacks one
Rank8s == {"4k3", "4k2P", "4k4", "4x3", "8"}
Rank7s == {"8", "NNNNNNNN"}
Rank3s == {"8", "P7", "NNNNNNNN"}
Rank2s == {"PPPPPPPP", "4P3", "4P4", "4X3"}
Rank1s == {"4K3", "4K2p", "3KK3"}

BoardInputs ==
  { r8 \o "/" \o r7 \o (IF short THEN "/8/8/" ELSE "/8/8/8/") \o r3 \o "/" \o r2
      \o "/" \o r1 :
    r8 \in Rank8s, r7 \in Rank7s, r3 \in Rank3s, r2 \in Rank2s, r1 \in Rank1s,
    short \in BOOLEAN }

\* entries of the piece lists validated on their own
PieceEntries ==
  { [square |-> "e1", piece |-> "K"], [square |-> "e8", piece |-> "k"],
    [square |-> "e2", piece |-> "P"], [square |-> "e2", piece |-> "N"],
    [square |-> "E2 ", piece |-> "Q"], [square |-> "z9", piece |-> "Q"],
    [square |-> "e8", piece |-> "P"] }

PieceListInputs == UNION { [1..n -> PieceEntries] : n \in 1..MaxPieces }

\* no candidate under validation
NoCheck ==
  [kind |-> "none", fen |-> Null, pieces |-> << >>, done |-> FALSE,
   valid |-> FALSE, error |-> Null, rebuilt |-> Null,
   variations |-> NoArray, targetElo |-> 0,
   selection |-> [selected |-> NoMove, engineBest |-> NoMove, allMoves |-> << >>,
                  randomDraws |-> 0],
   sampling |-> NoSampling]

\* longest list of ranked moves selectHumanMove is applied to on its own
MaxMoves == 3

\* ranked variations selectHumanMove is applied to on its own (as the moves
\* getLichessCloudEval makes of them), the empty list and a missing list, at
\* the ratings of the slider and at one rating above it, 2600, where the
\* temperature is at its floor
MoveSelectionInputs ==
  { [NoCheck EXCEPT !.kind = "moves", !.variations = list, !.targetElo = elo] :
      list \in {NoArray}
                 \cup { Array(pvs) :
                          pvs \in UNION { [1..n -> {PvE4, PvNf3, PvD4, PvMate, PvMated}]
                                           \cup [1..n -> {PvKf1, PvMated}] :
                                            n \in 0..MaxMoves } },
      elo \in TargetElos \cup {1200} }
  \cup { [NoCheck EXCEPT !.kind = "moves", !.variations = Array(pvs),
                         !.targetElo = 2600] :
           pvs \in UNION { [1..n -> {PvE4, PvNf3}] : n \in 2..MaxMoves } }

\* encodings normalizeFEN is applied to on its own: kings and rooks on and
\* off their home squares, with and without the fields after the board; one
\* board with well-formed and ill-formed fields after it; and texts without
\* a field
CastlingInputs ==
  { r8 \o (IF short THEN "/8/8/8/8/8/" ELSE "/8/8/8/8/8/8/") \o r1 \o rest :
      r8 \in {"r3k2r", "4k2r", "r3k3", "4k3", "r2k3r", "R3k2R"},
      r1 \in {"R3K2R", "4K2R", "R3K3", "4K3", "R4K1R", "r3K2r"},
      short \in BOOLEAN,
      rest \in {"", " b", " w -", " w Kq"} }
  \cup { "r3k2r/8/8/8/8/8/8/R3K2R" \o rest :
           rest \in { " x", " B KQkq", " b KQxkq e3 12 34", " w xy e4 x y",
                      "  w  -  a6  5  -1 ", " b Kk h3 1a 07", " w - e9 0 1 w",
                      " b q - 3 2" } }
  \cup { "", "  " }

ValidationInputs ==
  { [NoCheck EXCEPT !.kind = "fen", !.fen = board \o " w"] : board \in BoardInputs }
  \cup { [NoCheck EXCEPT !.kind = "pieces", !.pieces = list] : list \in PieceListInputs }
  \cup MoveSelectionInputs
  \cup { [NoCheck EXCEPT !.kind = "normalize", !.fen = fen] : fen \in CastlingInputs }

(***************************************************************************)
(* State                                                                   *)
(***************************************************************************)
VARIABLES
  clock,                \* Date.now()
  ticks,                \* time steps taken so far
  cycles,               \* cycles started so far
  lichessLastRequest,   \* rate limiter: time of the last primary request
  lichessBackoffUntil,  \* rate limiter: end of the cool-down window
  delayUntil,           \* when the pending setTimeout of the gateway fires
  pc,                   \* where the running cycle is suspended
  handler,              \* the message handler running the cycle
  userColor,            \* options.userColor
  prompt,               \* instruction text of the vision call in flight
  domResult,            \* handleAnalysis: result of tryDomExtraction
  visionResult,         \* handleAnalysis: last value of analyzeWithVision
  evaluation,           \* handleAnalysis: last value of evaluateVisionResults
  fenNormalized,        \* the encoding the handler passes to getStockfishMoves
  analysisNote,         \* handleAnalysis: the turn adjustment note
  normalizedFEN,        \* getStockfishMoves: the encoding it sends
  response,             \* the value passed to sendResponse
  domCalls,             \* page reads started in this cycle
  visionCalls,          \* vision calls started in this cycle
  lichessCalls,         \* primary requests issued in this cycle
  chessApiCalls,        \* secondary requests issued in this cycle
  throttledAt,          \* time the last throttling response was recorded
  lichessEntry,         \* the last entry into getLichessCloudEval
  evalRequest,          \* the last request sent to an evaluation collaborator
  checked,              \* a candidate under validation on its own, and its verdict
  overlapping,          \* a second getStockfishMoves call running meanwhile
  panel,                \* the panel: its capture button and its capture cycles
  contentScript         \* a chess.com page: listeners and window properties

limiterVars == << lichessLastRequest, lichessBackoffUntil, delayUntil >>
timeVars == << clock, ticks, cycles >>
cycleVars ==
  << handler, userColor, prompt, domResult, visionResult, evaluation,
     fenNormalized, analysisNote >>
callVars == << domCalls, visionCalls >>
countVars == << lichessCalls, chessApiCalls >>
logVars == << throttledAt, lichessEntry, evalRequest >>

\* every variable but contentScript
workerVarsOfPage ==
  << clock, ticks, cycles, lichessLastRequest, lichessBackoffUntil, delayUntil, pc,
     handler, userColor, prompt, domResult, visionResult, evaluation,
     fenNormalized, analysisNote, normalizedFEN, response, domCalls,
     visionCalls, lichessCalls, chessApiCalls, throttledAt, lichessEntry,
     evalRequest, checked, overlapping, panel >>

vars ==
  << clock, ticks, cycles, lichessLastRequest, lichessBackoffUntil, delayUntil, pc,
     handler, userColor, prompt, domResult, visionResult, evaluation,
     fenNormalized, analysisNote, normalizedFEN, response, domCalls,
     visionCalls, lichessCalls, chessApiCalls, throttledAt, lichessEntry,
     evalRequest, checked, overlapping, panel, contentScript >>

NoPrompt == [strict |-> FALSE, detail |-> Null, targeted |-> Null]
NoVisionResult == [fen |-> Null, turn |-> Null, pieces |-> << >>]
NoEvaluation ==
  [fen |-> Null, turn |-> Null, fenForStockfish |-> Null, normalizedFen |-> Null,
   validation |-> [valid |-> FALSE, error |-> Null], recoveryMethod |-> Null]
NoResponse ==
  [sent |-> FALSE, error |-> Null, fen |-> Null, fenNormalized |-> Null,
   turn |-> Null, hasMoves |-> FALSE, moves |-> << >>, selectedMove |-> NoMove,
   engineBest |-> NoMove, analysisNote |-> Null, source |-> Null,
   randomDraws |-> 0, rejected |-> FALSE]
NoEntry == [at |-> -1, throttledAt |-> -1, outcome |-> "none", error |-> Null]
NoRequest ==
  [to |-> "none", fen |-> Null, at |-> -1, throttledAt |-> -1, previousAt |-> -1]

\* no second call is running
NoOverlap == [pc |-> "none", fen |-> Null, delayUntil |-> 0, calls |-> 0]

\* a chess.com page before the content script is injected: no listener on
\* document, window.__chessStudyMouseDown and window.__chessStudyMouseUp
\* undefined (0); context counts the reloads of the extension, clicks is the
\* log of the clicks made
NoContentScript ==
  [mousedown |-> << >>, mouseup |-> << >>, windowMouseDown |-> 0,
   windowMouseUp |-> 0, injections |-> 0, context |-> 0, clicks |-> << >>]

\* the panel before any capture: captureBtn enabled; stage[k] is where the
\* k-th handleCapture call is suspended, requested tells what started each
\* call, in the order of the calls, and displayed lists the calls in the order
\* their analysis response was shown
NoPanel ==
  [disabled |-> FALSE, stage |-> [k \in 1..MaxCaptures |-> "none"],
   requested |-> << >>, displayed |-> << >>]

\* the module state of the service worker when it starts, no cycle running
InitWorker ==
  /\ clock = StartClock
  /\ ticks = 0
  /\ cycles = 0
  /\ lichessLastRequest = 0
  /\ lichessBackoffUntil = 0
  /\ delayUntil = 0
  /\ pc = "idle"
  /\ handler = "none"
  /\ userColor = Null
  /\ prompt = NoPrompt
  /\ domResult = NoDomResult
  /\ visionResult = NoVisionResult
  /\ evaluation = NoEvaluation
  /\ fenNormalized = Null
  /\ analysisNote = Null
  /\ normalizedFEN = Null
  /\ response = NoResponse
  /\ domCalls = 0
  /\ visionCalls = 0
  /\ lichessCalls = 0
  /\ chessApiCalls = 0
  /\ throttledAt = -1
  /\ overlapping = NoOverlap
  /\ panel = NoPanel
  /\ contentScript = NoContentScript
  /\ lichessEntry = NoEntry
  /\ evalRequest = NoRequest

Init ==
  /\ InitWorker
  /\ checked = NoCheck

(***************************************************************************)
(* Prompts                                                                 *)
(***************************************************************************)
buildVisionPrompt == NoPrompt

\* the parts of the retry instruction that depend on errorDetail: the detail
\* line and which TARGETED RECHECK section is appended
buildVisionRetryPrompt(errorDetail) ==
  LET err == IF errorDetail = Null THEN "" ELSE toLowerCase(errorDetail) IN
  [strict |-> TRUE,
   detail |-> IF errorDetail = Null \/ errorDetail = "" THEN Null ELSE errorDetail,
   targeted |->
     IF Includes(err, "pawn") THEN "pawns"
     ELSE IF Includes(err, "king") THEN "kings"
     ELSE IF Includes(err, "rank") \/ Includes(err, "8 ranks") \/ Includes(err, "squares")
       THEN "rank sums"
     ELSE IF Includes(err, "invalid character") THEN "format"
     ELSE Null]

(***************************************************************************)
(* Responses                                                               *)
(***************************************************************************)
\* a template literal that prints the value in lower case
TextLowered(v) == IF v = Null THEN "null" ELSE toLowerCase(v)

\* a template literal prints null as 'null'
Text(v) == IF v = Null THEN "null" ELSE v

ErrorOnly(msg) == [NoResponse EXCEPT !.sent = TRUE, !.error = msg]

\* the handler's promise rejects with an error of message msg: the catch of
\* the message listener answers { error: error.message }
Thrown(msg) == [ErrorOnly(msg) EXCEPT !.rejected = TRUE]

\* what the handler knows about the resolved position when it evaluates:
\* source is "dom", "vision" or "fen"
Context(source, fen, fenNorm, turn, note) ==
  [source |-> source, fen |-> fen, fenNormalized |-> fenNorm, turn |-> turn,
   analysisNote |-> note]

\* a handler that lets the error of getStockfishMoves escape
StockfishFailedRethrows(ctx, msg) == Thrown(msg)

\* the handler's answer when getStockfishMoves throws an error with message msg
StockfishFailed(ctx, msg) ==
  IF ctx.source = "fen" THEN Thrown(msg)
  ELSE [NoResponse EXCEPT
          !.sent = TRUE,
          !.error = "Stockfish analysis failed: " \o msg \o "\n\nFEN was: "
                    \o Text(ctx.fen),
          !.fen = ctx.fen,
          !.fenNormalized = ctx.fenNormalized,
          !.turn = ctx.turn,
          !.source = IF ctx.source = "dom" THEN "dom" ELSE Null]

\* the handler's answer when getStockfishMoves returns moves
Analysed(ctx, uc, selection) ==
  [sent |-> TRUE, error |-> Null, fen |-> ctx.fen,
   fenNormalized |-> ctx.fenNormalized,
   turn |-> IF uc /= Null THEN uc ELSE ctx.turn,
   hasMoves |-> TRUE, moves |-> selection.allMoves,
   selectedMove |-> selection.selected, engineBest |-> selection.engineBest,
   analysisNote |-> ctx.analysisNote,
   source |-> IF ctx.source = "fen" THEN Null ELSE ctx.source,
   randomDraws |-> selection.randomDraws, rejected |-> FALSE]

\* the context of the cycle that is suspended in getStockfishMoves
CurrentContext ==
  IF handler = "handleFenAnalysis"
    THEN Context("fen", split(fenNormalized, " ")[1], fenNormalized,
                 split(fenNormalized, " ")[2], Null)
  ELSE IF domResult.ok
    THEN Context("dom", domResult.fen, domResult.fenForStockfish, domResult.turn,
                 domResult.analysisNote)
  ELSE Context("vision", evaluation.fen, fenNormalized, evaluation.turn, analysisNote)

(***************************************************************************)
(* Evaluation gateway                                                      *)
(***************************************************************************)
\* Math.ceil(a / b) for a >= 0, b > 0
Ceil(a, b) == (a + b - 1) \div b

RateLimitedMessage(now) ==
  "Rate limited. Please wait "
    \o ToString(Ceil(lichessBackoffUntil - now, 1000))
    \o "s before next analysis."

\* the back-off test with the cool-down window counted as already over
InBackoffElapsed(now) == now + LICHESS_BACKOFF_TIME < lichessBackoffUntil

\* the back-off test at the entry of getLichessCloudEval
InBackoff(now) == now < lichessBackoffUntil

\* a 429 answer with the cool-down window left as it was
ThrottledWithoutBackoff(now) ==
  /\ UNCHANGED lichessBackoffUntil
  /\ throttledAt' = now

\* response.status === 429: lichessBackoffUntil = Date.now() + LICHESS_BACKOFF_TIME
Throttled(now) ==
  /\ lichessBackoffUntil' = now + LICHESS_BACKOFF_TIME
  /\ throttledAt' = now

\* the primary request is issued: lichessLastRequest = Date.now(), then fetch
IssueLichess(now, lichessBefore) ==
  /\ lichessLastRequest' = now
  /\ lichessCalls' = lichessBefore + 1
  /\ evalRequest' = [to |-> "primary", fen |-> normalizedFEN', at |-> now,
                     throttledAt |-> throttledAt,
                     previousAt |-> lichessLastRequest]

\* getStockfishMoves falls through to getChessApiMove, which issues its fetch
IssueChessApi(now, throttled, chessApiBefore) ==
  /\ chessApiCalls' = chessApiBefore + 1
  /\ evalRequest' = [to |-> "secondary", fen |-> normalizedFEN', at |-> now,
                     throttledAt |-> throttled, previousAt |-> -1]

\* a gateway that stamps lichessLastRequest when it refuses a request made
\* in the cool-down window
getLichessCloudEvalStampsRefusal(lichessBefore, chessApiBefore) ==
  LET now == clock IN
  IF InBackoff(now) THEN
    /\ lichessEntry' = [at |-> now, throttledAt |-> throttledAt,
                        outcome |-> "rate limited",
                        error |-> RateLimitedMessage(now)]
    /\ pc' = "chessApi"
    /\ IssueChessApi(now, throttledAt, chessApiBefore)
    /\ lichessCalls' = lichessBefore
    /\ lichessLastRequest' = now
    /\ UNCHANGED << lichessBackoffUntil, delayUntil, throttledAt, response >>
  ELSE IF now - lichessLastRequest < LICHESS_MIN_INTERVAL THEN
    /\ lichessEntry' = [at |-> now, throttledAt |-> throttledAt,
                        outcome |-> "delay", error |-> Null]
    /\ delayUntil' = now + (LICHESS_MIN_INTERVAL - (now - lichessLastRequest))
    /\ pc' = "lichessDelay"
    /\ lichessCalls' = lichessBefore
    /\ chessApiCalls' = chessApiBefore
    /\ evalRequest' = NoRequest
    /\ UNCHANGED << lichessLastRequest, lichessBackoffUntil, throttledAt,
                    response >>
  ELSE
    /\ lichessEntry' = [at |-> now, throttledAt |-> throttledAt,
                        outcome |-> "fetch", error |-> Null]
    /\ IssueLichess(now, lichessBefore)
    /\ chessApiCalls' = chessApiBefore
    /\ pc' = "lichess"
    /\ UNCHANGED << lichessBackoffUntil, delayUntil, throttledAt, response >>

\* getLichessCloudEval from its entry to its first await, called by
\* getStockfishMoves, which catches what it throws and falls back;
\* lichessBefore and chessApiBefore are the cycle's request counts so far
getLichessCloudEval(lichessBefore, chessApiBefore) ==
  LET now == clock IN
  IF InBackoff(now) THEN
    /\ lichessEntry' = [at |-> now, throttledAt |-> throttledAt,
                        outcome |-> "rate limited",
                        error |-> RateLimitedMessage(now)]
    /\ pc' = "chessApi"
    /\ IssueChessApi(now, throttledAt, chessApiBefore)
    /\ lichessCalls' = lichessBefore
    /\ UNCHANGED << limiterVars, throttledAt, response >>
  ELSE IF now - lichessLastRequest < LICHESS_MIN_INTERVAL THEN
    /\ lichessEntry' = [at |-> now, throttledAt |-> throttledAt,
                        outcome |-> "delay", error |-> Null]
    /\ delayUntil' = now + (LICHESS_MIN_INTERVAL - (now - lichessLastRequest))
    /\ pc' = "lichessDelay"
    /\ lichessCalls' = lichessBefore
    /\ chessApiCalls' = chessApiBefore
    /\ evalRequest' = NoRequest
    /\ UNCHANGED << lichessLastRequest, lichessBackoffUntil, throttledAt,
                    response >>
  ELSE
    /\ lichessEntry' = [at |-> now, throttledAt |-> throttledAt,
                        outcome |-> "fetch", error |-> Null]
    /\ IssueLichess(now, lichessBefore)
    /\ chessApiCalls' = chessApiBefore
    /\ pc' = "lichess"
    /\ UNCHANGED << lichessBackoffUntil, delayUntil, throttledAt, response >>

\* getStockfishMoves from its entry to its first await; ctx is the calling
\* handler's context, whose catch clause answers when the encoding is invalid
getStockfishMoves(fen, ctx, lichessBefore, chessApiBefore) ==
  LET normalized == normalizeFEN(fen, TRUE)
      validation == validateFEN(normalized) IN
  /\ normalizedFEN' = normalized
  /\ IF ~validation.valid THEN
       /\ response' = StockfishFailed(ctx, "Invalid FEN: " \o validation.error)
       /\ pc' = "done"
       /\ lichessCalls' = lichessBefore
       /\ chessApiCalls' = chessApiBefore
       /\ lichessEntry' = NoEntry
       /\ evalRequest' = NoRequest
       /\ UNCHANGED << limiterVars, throttledAt >>
     ELSE getLichessCloudEval(lichessBefore, chessApiBefore)

\* the cycle ends: the handler's value goes to sendResponse
Finish(resp) ==
  /\ response' = resp
  /\ pc' = "done"
  /\ UNCHANGED << limiterVars, logVars, normalizedFEN >>

(***************************************************************************)
(* handleAnalysis                                                          *)
(***************************************************************************)
\* ANALYZE_SCREENSHOT arrives: handleAnalysis runs up to await tryDomExtraction
StartAnalysis ==
  /\ pc \in {"idle", "done"}
  /\ UNCHANGED << checked, overlapping, panel, contentScript >>
  /\ cycles < MaxCycles
  /\ cycles' = cycles + 1
  /\ \E uc \in UserColors : userColor' = uc
  /\ handler' = "handleAnalysis"
  /\ pc' = "dom"
  /\ prompt' = NoPrompt
  /\ domResult' = NoDomResult
  /\ visionResult' = NoVisionResult
  /\ evaluation' = NoEvaluation
  /\ fenNormalized' = Null
  /\ analysisNote' = Null
  /\ normalizedFEN' = Null
  /\ response' = NoResponse
  /\ domCalls' = 1
  /\ visionCalls' = 0
  /\ lichessCalls' = 0
  /\ chessApiCalls' = 0
  /\ lichessEntry' = NoEntry
  /\ evalRequest' = NoRequest
  /\ UNCHANGED << clock, ticks, limiterVars, throttledAt >>

\* the rest of handleAnalysis once the position is resolved by vision
AfterVision(ev) ==
  \E adj \in {AdjustTurn(IF ev.fenForStockfish \notin {Null, ""}
                            THEN ev.fenForStockfish ELSE ev.fen, userColor)} :
    \E fenNorm \in {normalizeFEN(adj.fen, TRUE)} :
      /\ fenNormalized' = fenNorm
      /\ analysisNote' = adj.analysisNote
      /\ getStockfishMoves(fenNorm,
           Context("vision", ev.fen, fenNorm, ev.turn, adj.analysisNote),
           lichessCalls, chessApiCalls)

\* tryDomExtraction(userColor) for every tab
DomExtracted ==
  [tab \in Tabs, uc \in UserColors |-> tryDomExtraction(tab, uc)]

\* tryDomExtraction returns and handleAnalysis goes on to the vision step
\* whatever was read from the page
DomResultIgnored ==
  /\ pc = "dom"
  /\ \E tab \in Tabs : domResult' = DomExtracted[tab, userColor]
  /\ prompt' = buildVisionPrompt
  /\ visionCalls' = visionCalls + 1
  /\ pc' = "vision1"
  /\ UNCHANGED << timeVars, limiterVars, logVars, countVars, normalizedFEN, response,
                  handler, userColor, visionResult, evaluation, fenNormalized,
                  analysisNote, domCalls, checked, overlapping, panel, contentScript >>

\* tryDomExtraction returns; handleAnalysis runs to its next await
DomExtractionReturns ==
  /\ pc = "dom"
  /\ UNCHANGED << checked, overlapping, panel, contentScript >>
  /\ \E tab \in Tabs, hasApiKey \in BOOLEAN :
       \E dom \in {DomExtracted[tab, userColor]} :
       /\ domResult' = dom
       /\ IF dom.ok THEN
            /\ getStockfishMoves(dom.fenForStockfish,
                 Context("dom", dom.fen, dom.fenForStockfish, dom.turn,
                         dom.analysisNote),
                 lichessCalls, chessApiCalls)
            /\ UNCHANGED << prompt, visionCalls >>
          ELSE IF ~hasApiKey THEN
            /\ Finish(ErrorOnly("No API key configured for any provider"))
            /\ UNCHANGED << prompt, visionCalls, countVars >>
          ELSE
            /\ prompt' = buildVisionPrompt
            /\ visionCalls' = visionCalls + 1
            /\ pc' = "vision1"
            /\ UNCHANGED << limiterVars, logVars, countVars, normalizedFEN,
                            response >>
  /\ UNCHANGED << timeVars, handler, userColor, visionResult, evaluation,
                  fenNormalized, analysisNote, domCalls >>

\* what a vision call can do: throw, return the parse-failure value, or
\* return the fields of a parsed JSON object
VisionOutcomes ==
  { [throws |-> TRUE, value |-> NoVisionResult],
    [throws |-> FALSE, value |-> visionParseFailure] }
  \cup { [throws |-> FALSE, value |-> visionReturn(json)] : json \in VisionJson }

\* evaluateVisionResults([{ ...visionResult, provider }], normalizeOptions)[0]
\* for every value analyzeWithVision can return
EvaluatedVision ==
  [value \in { out.value : out \in VisionOutcomes } |->
     evaluateVisionResults(value, TRUE)]

\* the first analyzeWithVision call returns and the page is read once more
\* before the retry
VisionReturnsRereadsPage ==
  /\ pc = "vision1"
  /\ UNCHANGED << checked, overlapping, panel, contentScript >>
  /\ \E out \in VisionOutcomes :
       IF out.throws THEN
         /\ Finish(ErrorOnly("Vision analysis failed: API error"))
         /\ UNCHANGED << prompt, visionResult, evaluation, fenNormalized,
                         analysisNote, visionCalls, countVars, domCalls >>
       ELSE \E ev \in {EvaluatedVision[out.value]} :
         /\ visionResult' = out.value
         /\ evaluation' = ev
         /\ IF ~ev.validation.valid THEN
              /\ prompt' = buildVisionRetryPrompt(ev.validation.error)
              /\ visionCalls' = visionCalls + 1
              /\ domCalls' = domCalls + 1
              /\ pc' = "vision2"
              /\ UNCHANGED << limiterVars, logVars, countVars, normalizedFEN,
                              response, fenNormalized, analysisNote >>
            ELSE
              /\ AfterVision(ev)
              /\ UNCHANGED << prompt, visionCalls, domCalls >>
  /\ UNCHANGED << timeVars, handler, userColor, domResult >>

\* the first analyzeWithVision call returns
VisionReturns ==
  /\ pc = "vision1"
  /\ UNCHANGED << checked, overlapping, panel, contentScript >>
  /\ \E out \in VisionOutcomes :
       IF out.throws THEN
         /\ Finish(ErrorOnly("Vision analysis failed: API error"))
         /\ UNCHANGED << prompt, visionResult, evaluation, fenNormalized,
                         analysisNote, visionCalls, countVars >>
       ELSE \E ev \in {EvaluatedVision[out.value]} :
         /\ visionResult' = out.value
         /\ evaluation' = ev
         /\ IF ~ev.validation.valid THEN
              /\ prompt' = buildVisionRetryPrompt(ev.validation.error)
              /\ visionCalls' = visionCalls + 1
              /\ pc' = "vision2"
              /\ UNCHANGED << limiterVars, logVars, countVars, normalizedFEN,
                              response, fenNormalized, analysisNote >>
            ELSE
              /\ AfterVision(ev)
              /\ UNCHANGED << prompt, visionCalls >>
  /\ UNCHANGED << timeVars, handler, userColor, domResult, domCalls >>

\* the retry returns and an invalid result is retried again
VisionRetryRepeats ==
  /\ pc = "vision2"
  /\ \E out \in VisionOutcomes :
       \E ev \in {EvaluatedVision[out.value]} :
       /\ visionResult' = out.value
       /\ evaluation' = ev
       /\ IF ~ev.validation.valid /\ visionCalls < 4 THEN
            /\ prompt' = buildVisionRetryPrompt(ev.validation.error)
            /\ visionCalls' = visionCalls + 1
            /\ pc' = "vision2"
            /\ UNCHANGED << limiterVars, logVars, normalizedFEN, response >>
          ELSE
            /\ Finish(ErrorOnly("Vision retry failed: API error"))
            /\ UNCHANGED << prompt, visionCalls >>
  /\ UNCHANGED << timeVars, handler, userColor, domResult, domCalls, fenNormalized,
                  analysisNote, countVars, checked, overlapping, panel, contentScript >>

\* the retry analyzeWithVision call returns
VisionRetryReturns ==
  /\ pc = "vision2"
  /\ UNCHANGED << checked, overlapping, panel, contentScript >>
  /\ \E out \in VisionOutcomes :
       IF out.throws THEN
         /\ Finish(ErrorOnly("Vision retry failed: API error"))
         /\ UNCHANGED << visionResult, evaluation, fenNormalized, analysisNote,
                         countVars >>
       ELSE \E ev \in {EvaluatedVision[out.value]} :
         /\ visionResult' = out.value
         /\ evaluation' = ev
         /\ IF ~ev.validation.valid THEN
              /\ Finish([NoResponse EXCEPT
                           !.sent = TRUE,
                           !.error = "Vision returned invalid FEN: "
                                     \o Text(ev.validation.error),
                           !.fen = out.value.fen,
                           !.turn = out.value.turn])
              /\ UNCHANGED << fenNormalized, analysisNote, countVars >>
            ELSE AfterVision(ev)
  /\ UNCHANGED << timeVars, handler, userColor, domResult, domCalls, prompt,
                  visionCalls >>

(***************************************************************************)
(* handleFenAnalysis                                                       *)
(***************************************************************************)
\* ANALYZE_FEN arrives; what handleFenAnalysis throws is answered by the
\* message listener as { error: message }
StartFenAnalysis ==
  /\ pc \in {"idle", "done"}
  /\ UNCHANGED << checked, overlapping, panel, contentScript >>
  /\ cycles < MaxCycles
  /\ cycles' = cycles + 1
  /\ UNCHANGED << clock, ticks >>
  /\ handler' = "handleFenAnalysis"
  /\ userColor' = Null
  /\ prompt' = NoPrompt
  /\ domResult' = NoDomResult
  /\ visionResult' = NoVisionResult
  /\ evaluation' = NoEvaluation
  /\ analysisNote' = Null
  /\ domCalls' = 0
  /\ visionCalls' = 0
  /\ \E fenInput \in FenInputs :
       LET normalizedFen == normalizeFEN(fenInput, TRUE)
           validation == validateFEN(normalizedFen) IN
       /\ fenNormalized' = normalizedFen
       /\ IF fenInput = "" THEN
            /\ response' = Thrown("No FEN provided")
            /\ pc' = "done"
            /\ normalizedFEN' = Null
            /\ lichessCalls' = 0
            /\ chessApiCalls' = 0
            /\ lichessEntry' = NoEntry
            /\ evalRequest' = NoRequest
            /\ UNCHANGED << limiterVars, throttledAt >>
          ELSE IF ~validation.valid THEN
            /\ response' = Thrown("Invalid FEN: " \o validation.error)
            /\ pc' = "done"
            /\ normalizedFEN' = Null
            /\ lichessCalls' = 0
            /\ chessApiCalls' = 0
            /\ lichessEntry' = NoEntry
            /\ evalRequest' = NoRequest
            /\ UNCHANGED << limiterVars, throttledAt >>
          ELSE
            getStockfishMoves(normalizedFen,
              Context("fen", split(normalizedFen, " ")[1], normalizedFen,
                      split(normalizedFen, " ")[2], Null), 0, 0)

(***************************************************************************)
(* Gateway: resumption after the awaits                                    *)
(***************************************************************************)
\* the handler resumes with the moves getStockfishMoves returned
MovesReturned(moves) ==
  \E targetElo \in TargetElos :
    \E sampled \in SampledIndices(moves, targetElo) \cup {1} :
    Finish(Analysed(CurrentContext, userColor,
                    selectHumanMove(Array(moves), targetElo, sampled)))

\* the setTimeout of getLichessCloudEval fires, at delayUntil or later
LichessDelayElapsed ==
  /\ pc = "lichessDelay"
  /\ UNCHANGED << checked, overlapping, panel, contentScript >>
  /\ clock' = IF clock < delayUntil THEN delayUntil ELSE clock
  /\ normalizedFEN' = normalizedFEN
  /\ IssueLichess(clock', lichessCalls)
  /\ pc' = "lichess"
  /\ UNCHANGED << ticks, cycles, lichessBackoffUntil, delayUntil, cycleVars,
                  callVars, chessApiCalls, throttledAt, lichessEntry, response >>

\* the primary collaborator answers
LichessAnswer ==
  /\ pc = "lichess"
  /\ UNCHANGED << checked, overlapping, panel, contentScript >>
  /\ \E answer \in LichessAnswers :
       IF answer.status = 200 /\ Len(answer.moves) > 0 THEN
         /\ MovesReturned(LichessMoves(answer.moves))
         /\ UNCHANGED countVars
       ELSE
         \* getLichessCloudEval throws; getStockfishMoves catches and falls back
         /\ IF answer.status = 429 THEN Throttled(clock)
            ELSE UNCHANGED << lichessBackoffUntil, throttledAt >>
         /\ normalizedFEN' = normalizedFEN
         /\ IssueChessApi(clock, throttledAt', chessApiCalls)
         /\ pc' = "chessApi"
         /\ UNCHANGED << lichessLastRequest, delayUntil, lichessCalls,
                         lichessEntry, response >>
  /\ UNCHANGED << timeVars, cycleVars, callVars >>

\* the secondary collaborator answers
ChessApiAnswer ==
  /\ pc = "chessApi"
  /\ UNCHANGED << checked, overlapping, panel, contentScript >>
  /\ \E answer \in ChessApiAnswers :
       IF answer.ok THEN MovesReturned(answer.moves)
       ELSE Finish(StockfishFailed(CurrentContext, "Chess API error: 500"))
  /\ UNCHANGED << timeVars, cycleVars, callVars, countVars >>

\* time passes between two events
Tick ==
  /\ ticks < MaxTicks
  /\ UNCHANGED << checked, overlapping, panel, contentScript >>
  /\ \E d \in TimeSteps : clock' = clock + d
  /\ ticks' = ticks + 1
  /\ UNCHANGED << cycles, limiterVars, pc, cycleVars, normalizedFEN, response,
                  callVars, countVars, logVars >>

\* the cycles of the service worker, one after the other; time advances only
\* by the gateway's own delay
Next ==
  \/ StartAnalysis
  \/ DomExtractionReturns
  \/ VisionReturns
  \/ VisionRetryReturns
  \/ StartFenAnalysis
  \/ LichessDelayElapsed
  \/ LichessAnswer
  \/ ChessApiAnswer

Spec == Init /\ [][Next]_vars

\* the evaluation gateway driven by ANALYZE_FEN messages, with time passing
\* between the events
NextGateway ==
  \/ StartFenAnalysis
  \/ LichessDelayElapsed
  \/ LichessAnswer
  \/ ChessApiAnswer
  \/ Tick

SpecGateway == Init /\ [][NextGateway]_vars

(***************************************************************************)
(* Two cycles at once: the message listener starts a handler for every     *)
(* message, so a second getStockfishMoves call can run while the first is  *)
(* suspended at an await; both share lichessLastRequest and                *)
(* lichessBackoffUntil                                                     *)
(***************************************************************************)
\* a second ANALYZE_FEN message is handled while the first cycle awaits:
\* handleFenAnalysis and getStockfishMoves up to the first await of
\* getLichessCloudEval
OverlapEnters ==
  /\ pc \in {"lichessDelay", "lichess", "chessApi"}
  /\ overlapping.pc = "none"
  /\ overlapping.calls < MaxOverlaps
  /\ \E fenInput \in FenInputs :
       \E normalized \in {normalizeFEN(fenInput, TRUE)} :
         /\ fenInput /= ""
         /\ validateFEN(normalized).valid
         /\ IF InBackoff(clock) THEN
              /\ overlapping' = [pc |-> "chessApi", fen |-> normalized,
                                 delayUntil |-> 0, calls |-> overlapping.calls + 1]
              /\ evalRequest' = [to |-> "secondary", fen |-> normalized, at |-> clock,
                                 throttledAt |-> throttledAt, previousAt |-> -1]
              /\ UNCHANGED lichessLastRequest
            ELSE IF clock - lichessLastRequest < LICHESS_MIN_INTERVAL THEN
              /\ overlapping' =
                   [pc |-> "delay", fen |-> normalized,
                    delayUntil |-> clock + (LICHESS_MIN_INTERVAL
                                              - (clock - lichessLastRequest)),
                    calls |-> overlapping.calls + 1]
              /\ UNCHANGED << lichessLastRequest, evalRequest >>
            ELSE
              /\ overlapping' = [pc |-> "fetch", fen |-> normalized,
                                 delayUntil |-> 0, calls |-> overlapping.calls + 1]
              /\ lichessLastRequest' = clock
              /\ evalRequest' = [to |-> "primary", fen |-> normalized, at |-> clock,
                                 throttledAt |-> throttledAt,
                                 previousAt |-> lichessLastRequest]
  /\ UNCHANGED << timeVars, lichessBackoffUntil, delayUntil, pc, cycleVars,
                  normalizedFEN, response, callVars, countVars, throttledAt,
                  lichessEntry, checked, panel, contentScript >>

\* the setTimeout of the second call fires, at its delayUntil or later
OverlapDelayElapsed ==
  /\ overlapping.pc = "delay"
  /\ clock' = IF clock < overlapping.delayUntil THEN overlapping.delayUntil ELSE clock
  /\ lichessLastRequest' = clock'
  /\ evalRequest' = [to |-> "primary", fen |-> overlapping.fen, at |-> clock',
                     throttledAt |-> throttledAt,
                     previousAt |-> lichessLastRequest]
  /\ overlapping' = [overlapping EXCEPT !.pc = "fetch"]
  /\ UNCHANGED << ticks, cycles, lichessBackoffUntil, delayUntil, pc, cycleVars,
                  normalizedFEN, response, callVars, countVars, throttledAt,
                  lichessEntry, checked, panel, contentScript >>

\* the primary collaborator answers the second call
OverlapLichessAnswer ==
  /\ overlapping.pc = "fetch"
  /\ \E answer \in LichessAnswers :
       IF answer.status = 200 /\ Len(answer.moves) > 0 THEN
         /\ overlapping' = [overlapping EXCEPT !.pc = "none"]
         /\ UNCHANGED << lichessBackoffUntil, throttledAt, evalRequest >>
       ELSE
         /\ IF answer.status = 429 THEN Throttled(clock)
            ELSE UNCHANGED << lichessBackoffUntil, throttledAt >>
         /\ overlapping' = [overlapping EXCEPT !.pc = "chessApi"]
         /\ evalRequest' = [to |-> "secondary", fen |-> overlapping.fen, at |-> clock,
                            throttledAt |-> throttledAt', previousAt |-> -1]
  /\ UNCHANGED << timeVars, lichessLastRequest, delayUntil, pc, cycleVars,
                  normalizedFEN, response, callVars, countVars, lichessEntry,
                  checked, panel, contentScript >>

\* the secondary collaborator answers the second call, whose handler ends
OverlapChessApiAnswer ==
  /\ overlapping.pc = "chessApi"
  /\ overlapping' = [overlapping EXCEPT !.pc = "none"]
  /\ UNCHANGED << timeVars, limiterVars, pc, cycleVars, normalizedFEN, response,
                  callVars, countVars, logVars, checked, panel, contentScript >>

\* two cycles interleaved; time advances only by the gateway's own delays
NextOverlap ==
  \/ StartFenAnalysis
  \/ LichessDelayElapsed
  \/ LichessAnswer
  \/ ChessApiAnswer
  \/ OverlapEnters
  \/ OverlapDelayElapsed
  \/ OverlapLichessAnswer
  \/ OverlapChessApiAnswer

SpecOverlap == Init /\ [][NextOverlap]_vars

(***************************************************************************)
(* The panel                                                               *)
(***************************************************************************)
\* a click on captureBtn calls handleCapture, which runs up to its await of
\* chrome.storage.sync.get; a disabled button fires no click
ClickCapture ==
  /\ ~panel.disabled
  /\ Len(panel.requested) < MaxCaptures
  /\ panel' = [panel EXCEPT !.stage[Len(panel.requested) + 1] = "settings",
                            !.requested = Append(@, "click")]
  /\ UNCHANGED << timeVars, limiterVars, pc, cycleVars, normalizedFEN, response,
                  callVars, countVars, logVars, checked, overlapping,
                  contentScript >>

\* a TRIGGER_CAPTURE message (keyboard shortcut or middle click) calls
\* handleCapture, which runs up to its await of chrome.storage.sync.get
TriggerCapture ==
  /\ Len(panel.requested) < MaxCaptures
  /\ panel' = [panel EXCEPT !.stage[Len(panel.requested) + 1] = "settings",
                            !.requested = Append(@, "TRIGGER_CAPTURE")]
  /\ UNCHANGED << timeVars, limiterVars, pc, cycleVars, normalizedFEN, response,
                  callVars, countVars, logVars, checked, overlapping,
                  contentScript >>

\* the settings arrive: without a key handleCapture returns; with one it
\* disables captureBtn and sends CAPTURE_SCREENSHOT
SettingsRead ==
  /\ \E k \in 1..MaxCaptures, hasKey \in BOOLEAN :
       /\ panel.stage[k] = "settings"
       /\ panel' = IF hasKey
                     THEN [panel EXCEPT !.stage[k] = "capture", !.disabled = TRUE]
                     ELSE [panel EXCEPT !.stage[k] = "done"]
  /\ UNCHANGED << timeVars, limiterVars, pc, cycleVars, normalizedFEN, response,
                  callVars, countVars, logVars, checked, overlapping,
                  contentScript >>

\* the screenshot arrives and ANALYZE_SCREENSHOT is sent, or the capture
\* failed and the catch and finally clauses run
ScreenshotAnswered ==
  /\ \E k \in 1..MaxCaptures, success \in BOOLEAN :
       /\ panel.stage[k] = "capture"
       /\ panel' = IF success
                     THEN [panel EXCEPT !.stage[k] = "analyze"]
                     ELSE [panel EXCEPT !.stage[k] = "done", !.disabled = FALSE]
  /\ UNCHANGED << timeVars, limiterVars, pc, cycleVars, normalizedFEN, response,
                  callVars, countVars, logVars, checked, overlapping,
                  contentScript >>

\* the analysis response arrives and is shown (as results or as an error);
\* the finally clause enables captureBtn
AnalysisAnswered ==
  /\ \E k \in 1..MaxCaptures :
       /\ panel.stage[k] = "analyze"
       /\ panel' = [panel EXCEPT !.stage[k] = "done", !.disabled = FALSE,
                                 !.displayed = Append(@, k)]
  /\ UNCHANGED << timeVars, limiterVars, pc, cycleVars, normalizedFEN, response,
                  callVars, countVars, logVars, checked, overlapping,
                  contentScript >>

NextPanel ==
  \/ ClickCapture
  \/ TriggerCapture
  \/ SettingsRead
  \/ ScreenshotAnswered
  \/ AnalysisAnswered

SpecPanel == Init /\ [][NextPanel]_vars

(***************************************************************************)
(* The chess.com content script                                            *)
(***************************************************************************)
\* document.removeEventListener(type, listener): the listeners without the
\* one of that identity
RemoveListener(listeners, id) ==
  SelectSeq(listeners, LAMBDA h : h.id /= id)

\* a content script that registers its handlers without removing the ones of
\* the injection before
InjectContentScriptKeepsStale ==
  /\ contentScript.injections < MaxInjections
  /\ LET h == [id |-> contentScript.injections + 1, context |-> contentScript.context] IN
       contentScript' =
         [contentScript EXCEPT !.mousedown = Append(@, h),
                               !.mouseup = Append(@, h),
                               !.windowMouseDown = h.id,
                               !.windowMouseUp = h.id,
                               !.injections = h.id]
  /\ UNCHANGED workerVarsOfPage

\* the content script runs in the page once more: it removes the handlers
\* window still names, makes two new ones, which close over the runtime of
\* the extension as it is now, and registers them
InjectContentScript ==
  /\ contentScript.injections < MaxInjections
  /\ LET stale == contentScript.windowMouseDown /= 0
         h == [id |-> contentScript.injections + 1, context |-> contentScript.context]
         down == IF stale
                   THEN RemoveListener(contentScript.mousedown,
                                       contentScript.windowMouseDown)
                   ELSE contentScript.mousedown
         up == IF stale
                 THEN RemoveListener(contentScript.mouseup, contentScript.windowMouseUp)
                 ELSE contentScript.mouseup IN
       contentScript' =
         [contentScript EXCEPT !.mousedown = Append(down, h),
                               !.mouseup = Append(up, h),
                               !.windowMouseDown = h.id,
                               !.windowMouseUp = h.id,
                               !.injections = h.id]
  /\ UNCHANGED workerVarsOfPage

\* a click on the page with some button: every mousedown listener runs, and
\* for the middle button (1) calls chrome.runtime.sendMessage, which throws
\* in a handler whose extension context has been invalidated since; sent is
\* the number of TRIGGER_CAPTURE messages that went out and invalidated the
\* number of handlers whose call threw
MouseClick ==
  /\ Len(contentScript.clicks) < MaxClicks
  /\ \E button \in {0, 1, 2} :
       LET live == SelectSeq(contentScript.mousedown,
                             LAMBDA h : h.context = contentScript.context) IN
         contentScript' =
           [contentScript EXCEPT
              !.clicks = Append(@, [button |-> button,
                                    handlers |-> Len(contentScript.mousedown),
                                    sent |-> IF button = 1 THEN Len(live) ELSE 0,
                                    invalidated |->
                                      IF button = 1
                                        THEN Len(contentScript.mousedown) - Len(live)
                                        ELSE 0])]
  /\ UNCHANGED workerVarsOfPage

\* the extension is reloaded or updated: the context of the scripts injected
\* so far is invalidated
ExtensionReloaded ==
  /\ contentScript.context < MaxReloads
  /\ contentScript' = [contentScript EXCEPT !.context = @ + 1]
  /\ UNCHANGED workerVarsOfPage

NextContent ==
  \/ InjectContentScript
  \/ MouseClick
  \/ ExtensionReloaded

SpecContent == Init /\ [][NextContent]_vars

(***************************************************************************)
(* The validators on their own                                             *)
(***************************************************************************)
workerVars ==
  << clock, ticks, cycles, lichessLastRequest, lichessBackoffUntil, delayUntil, pc,
     handler, userColor, prompt, domResult, visionResult, evaluation,
     fenNormalized, analysisNote, normalizedFEN, response, domCalls,
     visionCalls, lichessCalls, chessApiCalls, throttledAt, lichessEntry,
     evalRequest, overlapping, panel, contentScript >>

\* validateFEN is applied to the candidate
ValidateFen ==
  /\ checked.kind = "fen"
  /\ ~checked.done
  /\ LET validation == validateFEN(checked.fen) IN
       checked' = [checked EXCEPT !.done = TRUE, !.valid = validation.valid,
                                  !.error = validation.error]
  /\ UNCHANGED workerVars

\* the piece list goes through validatePiecesArray, buildFENFromPieces and
\* validateFEN, as in evaluateVisionResults
FromPieceList ==
  /\ checked.kind = "pieces"
  /\ ~checked.done
  /\ LET piecesValidation == validatePiecesArray(checked.pieces)
         piecesResult == PiecesResult([fen |-> Null, turn |-> "w",
                                       pieces |-> checked.pieces]) IN
       checked' = [checked EXCEPT !.done = TRUE, !.valid = piecesResult.ok,
                                  !.error = piecesValidation.error,
                                  !.rebuilt = piecesResult.fen]
  /\ UNCHANGED workerVars

\* normalizeFEN is applied to the encoding, castling inferred when missing
NormalizeFen ==
  /\ checked.kind = "normalize"
  /\ ~checked.done
  /\ checked' = [checked EXCEPT !.done = TRUE,
                                !.rebuilt = normalizeFEN(checked.fen, TRUE)]
  /\ UNCHANGED workerVars

\* selectHumanMove is applied to the ranked moves, with each outcome of its
\* random draws
SelectMove ==
  /\ checked.kind = "moves"
  /\ ~checked.done
  /\ \E moves \in { IF checked.variations.defined
                       THEN Array(LichessMoves(checked.variations.items))
                       ELSE NoArray } :
       \E jitter \in RandomDraws, roll \in RandomDraws :
         \E sampling \in { IF Len(moves.items) > 1
                                /\ ~IsMateEvaluation(moves.items[1].evaluation)
                              THEN softmaxSampling(moves.items, checked.targetElo,
                                                   jitter, roll)
                              ELSE NoSampling } :
           checked' = [checked EXCEPT
                         !.done = TRUE,
                         !.sampling = sampling,
                         !.selection =
                           selectHumanMove(moves, checked.targetElo,
                                           IF sampling = NoSampling THEN 1
                                           ELSE sampling.selectedIndex)]
  /\ UNCHANGED workerVars

InitValidate ==
  /\ InitWorker
  /\ checked \in ValidationInputs

NextValidate ==
  \/ ValidateFen
  \/ FromPieceList
  \/ SelectMove
  \/ NormalizeFen

SpecValidate == InitValidate /\ [][NextValidate]_vars

(***************************************************************************)
(* The board rules, stated on the ranks rather than by the scan            *)
(***************************************************************************)
\* the ranks of the board field of an encoding, rank 8 first
BoardRanksOf(fen) == split(split(fen, " ")[1], "/")

\* squares a rank string stands for: a run digit its value, any other
\* character one square
RECURSIVE RankSquares(_, _)
RankSquares(rank, j) ==
  IF j > Len(rank) THEN 0
  ELSE (IF HasChar(RunDigits, CharAt(rank, j)) THEN DigitValue(CharAt(rank, j)) ELSE 1)
       + RankSquares(rank, j + 1)

CharPositions(ranks) ==
  UNION { { << i, j >> : j \in 1..Len(ranks[i]) } : i \in 1..Len(ranks) }

CountOf(ranks, letters) ==
  Cardinality({ p \in CharPositions(ranks) : CharAt(ranks[p[1]], p[2]) \in letters })

IllegalSymbol(ch) == ~HasChar(RunDigits, ch) /\ ~HasChar(PieceLetters, ch)

\* a pawn in the first or the last rank string
BackRankPawn(ranks, i, j) ==
  i \in {1, Len(ranks)} /\ CharAt(ranks[i], j) \in {"P", "p"}

ViolatesRankCount(ranks) == Len(ranks) /= 8
ViolatesRankSum(ranks) == \E i \in 1..Len(ranks) : RankSquares(ranks[i], 1) /= 8
ViolatesSymbols(ranks) ==
  \E p \in CharPositions(ranks) : IllegalSymbol(CharAt(ranks[p[1]], p[2]))
ViolatesKings(ranks) == CountOf(ranks, {"K"}) /= 1 \/ CountOf(ranks, {"k"}) /= 1
ViolatesPawnCount(ranks) == CountOf(ranks, {"P"}) > 8 \/ CountOf(ranks, {"p"}) > 8
ViolatesPawnRank(ranks) == \E p \in CharPositions(ranks) : BackRankPawn(ranks, p[1], p[2])
ViolatesPieces(ranks) ==
  \/ CountOf(ranks, {"P", "N", "B", "R", "Q", "K"}) > 16
  \/ CountOf(ranks, {"p", "n", "b", "r", "q", "k"}) > 16

\* the first rule violated in the order: 8 ranks, rank sums, legal symbols,
\* kings, pawns, pieces; 0 when none is
StatedOrderRule(ranks) ==
  IF ViolatesRankCount(ranks) THEN 1
  ELSE IF ViolatesRankSum(ranks) THEN 2
  ELSE IF ViolatesSymbols(ranks) THEN 3
  ELSE IF ViolatesKings(ranks) THEN 4
  ELSE IF ViolatesPawnCount(ranks) \/ ViolatesPawnRank(ranks) THEN 5
  ELSE IF ViolatesPieces(ranks) THEN 6
  ELSE 0

\* a rank offends on its own: an illegal symbol, a back-rank pawn, or a sum
\* other than 8
OffendingChars(ranks, i) ==
  { j \in 1..Len(ranks[i]) :
      IllegalSymbol(CharAt(ranks[i], j)) \/ BackRankPawn(ranks, i, j) }

RankOffends(ranks, i) ==
  OffendingChars(ranks, i) /= {} \/ RankSquares(ranks[i], 1) /= 8

\* index of the first offending rank string, 0 when none offends
FirstOffendingRank(ranks) ==
  IF \E i \in 1..Len(ranks) : RankOffends(ranks, i)
    THEN CHOOSE i \in 1..Len(ranks) :
           RankOffends(ranks, i) /\ \A k \in 1..(i - 1) : ~RankOffends(ranks, k)
    ELSE 0

\* the rule of the first violation met when the ranks are read from rank 8
\* down, each character by character with the rank's sum at its end, and the
\* counts are looked at after all ranks
ScanOrderRule(ranks) ==
  IF ViolatesRankCount(ranks) THEN 1
  ELSE LET i == FirstOffendingRank(ranks) IN
    IF i /= 0 THEN
      IF OffendingChars(ranks, i) = {} THEN 2
      ELSE LET j == CHOOSE j \in OffendingChars(ranks, i) :
                      \A k \in OffendingChars(ranks, i) : j <= k
           IN IF IllegalSymbol(CharAt(ranks[i], j)) THEN 3 ELSE 5
    ELSE IF ViolatesKings(ranks) THEN 4
    ELSE IF ViolatesPawnCount(ranks) THEN 5
    ELSE IF ViolatesPieces(ranks) THEN 6
    ELSE 0

\* the rule a diagnostic string of validateFEN belongs to
DiagnosticRule(error) ==
  IF error = Null THEN 0
  ELSE IF Includes(error, "8 ranks") THEN 1
  ELSE IF Includes(error, "squares, should have 8") THEN 2
  ELSE IF Includes(error, "Invalid character") THEN 3
  ELSE IF Includes(error, "King") THEN 4
  ELSE IF Includes(error, "pawn") THEN 5
  ELSE IF Includes(error, "pieces, maximum") THEN 6
  ELSE 7

\* the position of an encoding keeps every board rule
LegalPosition(fen) ==
  /\ Len(split(fen, " ")) >= 2
  /\ StatedOrderRule(BoardRanksOf(fen)) = 0

(***************************************************************************)
(* What a vision response holds, candidate by candidate                    *)
(***************************************************************************)
\* a rank string square by square, '.' for an empty square
RECURSIVE ExpandRank(_, _)
ExpandRank(rank, j) ==
  IF j > Len(rank) THEN ""
  ELSE (IF HasChar(RunDigits, CharAt(rank, j))
          THEN SubSeq("........", 1, DigitValue(CharAt(rank, j)))
          ELSE CharAt(rank, j))
       \o ExpandRank(rank, j + 1)

\* the squares of a board, rank by rank
SquaresOf(board) ==
  LET ranks == split(board, "/") IN [i \in 1..Len(ranks) |-> ExpandRank(ranks[i], 1)]

\* the verdict on the run-length field of a vision response
FenFieldValidation(value) ==
  LET fenData == buildFenForAnalysis(value, TRUE) IN
  IF fenData.ok THEN validateFEN(fenData.normalized) ELSE Invalid("No FEN provided")

FenFieldError(value) == FenFieldValidation(value).error

\* the diagnostic of the piece list of a vision response
PieceListError(value) == validatePiecesArray(value.pieces).error

\* the encoding built from the piece list of a vision response
PieceListFen(value) == PiecesResult(value).fen

BothInvalid(value) == ~FenFieldValidation(value).valid /\ ~PiecesResult(value).ok
OnlyPiecesValid(value) == ~FenFieldValidation(value).valid /\ PiecesResult(value).ok

\* both candidates are valid and their boards differ on a square
BothValidAndDiffer(value) ==
  /\ FenFieldValidation(value).valid
  /\ PiecesResult(value).ok
  /\ SquaresOf(BoardOf(buildFenForAnalysis(value, TRUE).normalized))
       /= SquaresOf(BoardOf(PieceListFen(value)))

InGateway == pc \in {"lichessDelay", "lichess", "chessApi", "done"}

(***************************************************************************)
(* Properties                                                              *)
(***************************************************************************)
\* C1: in one handleAnalysis cycle the vision collaborator is called at most
\* twice; the retry is in flight only after a first response whose two
\* candidates are both invalid, such a first response is always retried, and
\* after a retry that is again invalid (or throws) the cycle is over with an
\* error answer, no evaluation request and no third vision call.
C1_AtMostOneRetry ==
  handler = "handleAnalysis" =>
    /\ visionCalls \in 0..2
    /\ (pc = "vision1" => visionCalls = 1)
    /\ (pc = "vision2" => visionCalls = 2 /\ BothInvalid(visionResult))
    /\ (visionCalls = 1 /\ pc /= "vision1"
          /\ response.error /= "Vision analysis failed: API error"
        => ~BothInvalid(visionResult))
    /\ (visionCalls = 2 /\ pc /= "vision2" /\ BothInvalid(visionResult)
        => /\ pc = "done"
           /\ response.error \in
                { "Vision retry failed: API error",
                  "Vision returned invalid FEN: " \o FenFieldError(visionResult) }
           /\ lichessCalls = 0
           /\ chessApiCalls = 0)

\* C1 witness: a cycle that ended after an invalid retry
C1_Witness ==
  /\ handler = "handleAnalysis"
  /\ pc = "done"
  /\ visionCalls = 2
  /\ BothInvalid(visionResult)
  /\ response.error = "Vision returned invalid FEN: " \o FenFieldError(visionResult)

\* C2: when tryDomExtraction returns a validated candidate the cycle goes
\* straight to evaluation with that candidate, the vision collaborator is
\* never called in the cycle, and the answer names the page as the source
\* whether evaluation succeeds or fails.
C2_DomResolvesWithoutVision ==
  domResult.ok =>
    /\ visionCalls = 0
    /\ InGateway
    /\ validateFEN(domResult.fenForStockfish).valid
    /\ normalizedFEN = normalizeFEN(domResult.fenForStockfish, TRUE)
    /\ (evalRequest.to /= "none" => evalRequest.fen = normalizedFEN)
    /\ (pc = "done" => /\ response.sent
                       /\ response.source = "dom"
                       /\ response.fen = domResult.fen)

\* C2 witness: a cycle resolved from the page whose evaluation failed
C2_Witness ==
  /\ domResult.ok
  /\ pc = "done"
  /\ response.error /= Null
  /\ chessApiCalls = 1
  /\ visionCalls = 0

\* C3: when the run-length field and the piece list of a vision response are
\* both valid and differ on a square, the evaluation carries the encoding
\* built from the piece list, tagged recoveryMethod = 'pieces-array', and
\* that board is the one sent to evaluation.
C3_PiecesPreferred ==
  (handler = "handleAnalysis" /\ visionCalls >= 1 /\ BothValidAndDiffer(visionResult)) =>
    LET piecesFen == PieceListFen(visionResult) IN
    /\ evaluation.validation.valid
    /\ evaluation.recoveryMethod = "pieces-array"
    /\ evaluation.fenForStockfish = piecesFen
    /\ evaluation.normalizedFen = piecesFen
    /\ BoardOf(fenNormalized) = BoardOf(piecesFen)
    /\ (evalRequest.to /= "none" => BoardOf(evalRequest.fen) = BoardOf(piecesFen))

\* C3 witness: a request sent for a response whose candidates differ
C3_Witness ==
  /\ handler = "handleAnalysis"
  /\ evalRequest.to = "primary"
  /\ BothValidAndDiffer(visionResult)

\* C3 as stated: the tag of that case is 'piece-list-preferred'
C3_TagPieceListPreferred ==
  (handler = "handleAnalysis" /\ visionCalls >= 1 /\ BothValidAndDiffer(visionResult)) =>
    evaluation.recoveryMethod = "piece-list-preferred"

\* C4: when the run-length field of the first vision response is invalid and
\* its piece list is valid, no retry is made: the cycle resolves from the
\* piece list, tagged recoveryMethod = 'pieces-array', with exactly one
\* vision call.
C4_PiecesOnlyNoRetry ==
  /\ (pc = "vision2" => ~OnlyPiecesValid(visionResult))
  /\ (handler = "handleAnalysis" /\ visionCalls = 1 /\ pc /= "vision1"
        /\ OnlyPiecesValid(visionResult)
      => /\ InGateway
         /\ evaluation.validation.valid
         /\ evaluation.recoveryMethod = "pieces-array"
         /\ evaluation.fenForStockfish = PieceListFen(visionResult)
         /\ BoardOf(fenNormalized) = BoardOf(PieceListFen(visionResult)))

\* C4 witness: a cycle answered with moves after one vision call whose
\* piece list alone was valid
C4_Witness ==
  /\ handler = "handleAnalysis"
  /\ visionCalls = 1
  /\ OnlyPiecesValid(visionResult)
  /\ pc = "done"
  /\ response.hasMoves

\* C4 as stated: the tag of that case is 'piece-list-only'
C4_TagPieceListOnly ==
  (handler = "handleAnalysis" /\ visionCalls = 1 /\ pc /= "vision1"
     /\ OnlyPiecesValid(visionResult))
  => evaluation.recoveryMethod = "piece-list-only"

RankSumDiagnostic(error) == Includes(error, "squares, should have 8")
KingOrPawnDiagnostic(error) == Includes(error, "King") \/ Includes(error, "pawn")

\* C5: the diagnostic carried into the retry instruction is the one of the
\* run-length field ('No FEN provided' when the field is missing), whatever
\* the piece list failed with; the instruction gets its pawn or king
\* section exactly when that diagnostic names a pawn or a king.
C5_RetryCarriesFenDiagnostic ==
  pc = "vision2" =>
    /\ prompt.strict
    /\ prompt.detail = FenFieldError(visionResult)
    /\ prompt.targeted \in {"pawns", "kings"}
         <=> KingOrPawnDiagnostic(FenFieldError(visionResult))

\* C5 witness: a retry in flight after a rank-sum diagnostic of the field and
\* a king or pawn diagnostic of the piece list
C5_Witness ==
  /\ pc = "vision2"
  /\ RankSumDiagnostic(FenFieldError(visionResult))
  /\ KingOrPawnDiagnostic(PieceListError(visionResult))
  /\ prompt.targeted = "rank sums"

\* C5 as stated: a king or pawn diagnostic of one candidate is carried into
\* the retry in preference to a rank-sum diagnostic of the other
C5_InformativeDiagnosticPreferred ==
  (pc = "vision2"
     /\ RankSumDiagnostic(FenFieldError(visionResult))
     /\ KingOrPawnDiagnostic(PieceListError(visionResult)))
  => prompt.detail = PieceListError(visionResult)

\* C6 as stated: with a known userColor, the encoding of every request sent
\* to an evaluation collaborator has userColor as its active color
C6_ActiveColorIsUserColor ==
  (evalRequest.to /= "none" /\ userColor /= Null)
  => split(evalRequest.fen, " ")[2] = userColor

\* C7: every encoding sent to the primary or the secondary evaluation
\* collaborator passes validateFEN and keeps every board rule: 8 ranks of 8
\* squares, the 12 piece symbols only, one king per color, at most 8 pawns
\* and 16 pieces per color, no pawn on rank 1 or 8.
C7_OnlyLegalPositionsEvaluated ==
  evalRequest.to /= "none" =>
    /\ validateFEN(evalRequest.fen).valid
    /\ LegalPosition(evalRequest.fen)
    /\ evalRequest.fen = normalizedFEN

\* C7 witness: a request to the secondary collaborator for a position that
\* came from a vision retry
C7_Witness ==
  /\ evalRequest.to = "secondary"
  /\ visionCalls = 2
  /\ LegalPosition(evalRequest.fen)

\* C8: validateFEN checks the number of ranks first; then it reads the ranks
\* from rank 8 down, character by character, and stops at the first illegal
\* symbol or back-rank pawn it meets, checking a rank's sum at the end of
\* that rank; the kings, pawn counts and piece counts are checked after all
\* ranks, in this order. Its diagnostic is the one of the first violation
\* met this way, it names the offending rank, and the board is accepted
\* exactly when no rule is violated.
C8_DiagnosticOfFirstViolationScanned ==
  (checked.kind = "fen" /\ checked.done) =>
    LET ranks == BoardRanksOf(checked.fen) IN
    /\ DiagnosticRule(checked.error) = ScanOrderRule(ranks)
    /\ checked.valid <=> StatedOrderRule(ranks) = 0
    /\ (~ViolatesRankCount(ranks) /\ FirstOffendingRank(ranks) /= 0
        => Includes(checked.error,
                    "ank " \o ToString(9 - FirstOffendingRank(ranks))))

\* C8 witness: a board with a wrong rank sum rejected with a pawn diagnostic
C8_Witness ==
  /\ checked.kind = "fen"
  /\ checked.done
  /\ StatedOrderRule(BoardRanksOf(checked.fen)) = 2
  /\ DiagnosticRule(checked.error) = 5

\* C8 as stated: the diagnostic is the one of the earliest violated rule in
\* the order 8 ranks, rank sums, legal symbols, kings, pawns, pieces
C8_DiagnosticOfEarliestRule ==
  (checked.kind = "fen" /\ checked.done) =>
    DiagnosticRule(checked.error) = StatedOrderRule(BoardRanksOf(checked.fen))

WellFormedSquare(sq) ==
  Len(sq) = 2 /\ HasChar(Files, CharAt(sq, 1)) /\ HasChar(RunDigits, CharAt(sq, 2))

HasDuplicateSquare(pieces) ==
  \E i, j \in 1..Len(pieces) : i /= j /\ pieces[i].square = pieces[j].square

HasMalformedSquare(pieces) ==
  \E i \in 1..Len(pieces) : ~WellFormedSquare(pieces[i].square)

\* C9 as stated: a piece list with two entries for one square or with a
\* malformed square name is rejected with a validation error
C9_RejectsDuplicateAndMalformedSquares ==
  (checked.kind = "pieces" /\ checked.done
     /\ (HasDuplicateSquare(checked.pieces) \/ HasMalformedSquare(checked.pieces)))
  => (~checked.valid /\ checked.error /= Null)

\* the entry into getLichessCloudEval of the running cycle fell inside the
\* cool-down window of the last throttling response
EnteredInCooldown ==
  /\ lichessEntry.outcome /= "none"
  /\ lichessEntry.throttledAt >= 0
  /\ lichessEntry.at < lichessEntry.throttledAt + LICHESS_BACKOFF_TIME

\* C10: a call of getLichessCloudEval inside the cool-down window of a
\* throttling response throws 'Rate limited. Please wait Ns before next
\* analysis.', N the remaining wait in seconds rounded up, and sends nothing
\* to the primary collaborator; getStockfishMoves catches it and sends the
\* request to the secondary collaborator, so the cycle's answer is not that
\* error.
C10_PrimaryFailsFastInCooldown ==
  EnteredInCooldown =>
    LET remaining == lichessEntry.throttledAt + LICHESS_BACKOFF_TIME - lichessEntry.at IN
    /\ lichessEntry.outcome = "rate limited"
    /\ \E n \in 1..(LICHESS_BACKOFF_TIME \div 1000) :
         /\ 1000 * (n - 1) < remaining
         /\ remaining <= 1000 * n
         /\ lichessEntry.error = "Rate limited. Please wait " \o ToString(n)
                                   \o "s before next analysis."
    /\ lichessCalls = 0
    /\ chessApiCalls = 1
    /\ evalRequest.to = "secondary"
    /\ evalRequest.at = lichessEntry.at
    /\ (pc = "done" => ~Includes(Text(response.error), "Rate limited"))

\* C10 witness: a cycle that entered the gateway some time into the
\* cool-down window and was answered with the secondary collaborator's move
C10_Witness ==
  /\ EnteredInCooldown
  /\ lichessEntry.at > lichessEntry.throttledAt
  /\ pc = "done"
  /\ response.hasMoves

\* C10 as stated: an evaluation request inside the cool-down window issues
\* no network call and fails with the rate-limit error
C10_FailsFastWithoutNetworkCall ==
  EnteredInCooldown =>
    /\ lichessCalls = 0
    /\ chessApiCalls = 0
    /\ (pc = "done" => Includes(Text(response.error), "Rate limited"))

\* C11 as stated: the primary request last issued came at least
\* LICHESS_MIN_INTERVAL after the primary request before it
C11_PrimaryRequestsSpacedByMinInterval ==
  evalRequest.to = "primary"
  => evalRequest.at - evalRequest.previousAt >= LICHESS_MIN_INTERVAL

\* the primary request of the running cycle was answered with status 429:
\* the cycle issued one, and the last throttling response came after it
ThrottledInCycle ==
  /\ lichessCalls = 1
  /\ throttledAt >= lichessLastRequest

C13_CollaboratorCallsInSequence ==
  handler = "handleAnalysis" =>
    /\ domCalls = 1
    /\ (pc = "dom" =>
          visionCalls = 0 /\ lichessCalls = 0 /\ chessApiCalls = 0)
    /\ (visionCalls >= 1 => ~domResult.ok)
    /\ (pc = "vision1" =>
          /\ visionCalls = 1
          /\ evaluation = NoEvaluation
          /\ lichessCalls = 0 /\ chessApiCalls = 0)
    /\ (pc = "vision2" =>
          /\ visionCalls = 2
          /\ evaluation /= NoEvaluation
          /\ ~evaluation.validation.valid
          /\ lichessCalls = 0 /\ chessApiCalls = 0)
    /\ (pc \in {"lichessDelay", "lichess", "chessApi"} =>
          visionCalls \in 0..2 /\ (visionCalls = 0 <=> domResult.ok))
    /\ (pc = "lichess" => lichessCalls = 1 /\ chessApiCalls = 0)
    /\ (pc = "chessApi" => chessApiCalls = 1)

\* C13 witness: an evaluation request in flight after a page read without a
\* candidate, a first vision call and a retry
C13_Witness ==
  /\ handler = "handleAnalysis"
  /\ pc = "lichess"
  /\ domCalls = 1
  /\ visionCalls = 2

\* C14: a handleAnalysis cycle that ends without a valid position after the
\* retry either reports that the retry call itself failed, or answers with
\* 'Vision returned invalid FEN: ' followed, character for character, by the
\* diagnostic that validating the retry's result produced.
C14_FailedCarriesLastDiagnostic ==
  (handler = "handleAnalysis" /\ pc = "done" /\ visionCalls = 2
     /\ ~evaluation.validation.valid)
  => \/ response.error = "Vision retry failed: API error"
     \/ /\ evaluation = evaluateVisionResults(visionResult, TRUE)
        /\ evaluation.validation.error = FenFieldError(visionResult)
        /\ response.error
             = "Vision returned invalid FEN: " \o FenFieldError(visionResult)
        /\ response.fen = visionResult.fen

\* C14 witness: a cycle failed after a retry whose run-length field had a
\* wrong rank sum, answered with that diagnostic
C14_Witness ==
  /\ handler = "handleAnalysis"
  /\ pc = "done"
  /\ visionCalls = 2
  /\ RankSumDiagnostic(FenFieldError(visionResult))
  /\ response.error = "Vision returned invalid FEN: " \o FenFieldError(visionResult)

\* both candidates are valid and their boards have the same piece or no
\* piece on each of the 64 squares
BothValidAndMatch(value) ==
  /\ FenFieldValidation(value).valid
  /\ PiecesResult(value).ok
  /\ SquaresOf(BoardOf(buildFenForAnalysis(value, TRUE).normalized))
       = SquaresOf(BoardOf(PieceListFen(value)))

\* C15 as stated: when the run-length field and the piece list of a vision
\* response are both valid and agree on every square, the evaluation is the
\* run-length candidate and carries no recovery tag
C15_AgreeingCandidatesResolveFromFenField ==
  (handler = "handleAnalysis" /\ visionCalls >= 1 /\ pc /= "vision1"
     /\ BothValidAndMatch(visionResult))
  => /\ evaluation.recoveryMethod = Null
     /\ evaluation.normalizedFen
          = buildFenForAnalysis(visionResult, TRUE).normalized

\* piece letters plus empty-run digits of a rank string
RECURSIVE RankContentSum(_, _)
RankContentSum(rank, j) ==
  IF j > Len(rank) THEN 0
  ELSE (IF HasChar(RunDigits, CharAt(rank, j)) THEN DigitValue(CharAt(rank, j))
        ELSE IF HasChar(PieceLetters, CharAt(rank, j)) THEN 1 ELSE 0)
       + RankContentSum(rank, j + 1)

\* indices of the rank strings whose content does not sum to 8
BadSumRanks(ranks) == { i \in 1..Len(ranks) : RankContentSum(ranks[i], 1) /= 8 }

\* the diagnostic names rank n
NamesRank(error, n) == error /= Null /\ Includes(error, "ank " \o ToString(n))

\* C16: a board with a rank whose content does not sum to 8 is always
\* rejected. With other than 8 ranks the diagnostic is the rank count. With
\* 8 ranks it names the first rank, from rank 8 down, that has an illegal
\* symbol, a back-rank pawn or a wrong sum, and it is 'Rank N has S squares,
\* should have 8' when that rank has neither an illegal symbol nor a
\* back-rank pawn.
C16_BadRankSumRejectedAtFirstOffendingRank ==
  (checked.kind = "fen" /\ checked.done) =>
    LET ranks == BoardRanksOf(checked.fen) IN
    BadSumRanks(ranks) /= {} =>
      /\ ~checked.valid
      /\ IF Len(ranks) /= 8
           THEN checked.error
                  = "Board should have 8 ranks, got " \o ToString(Len(ranks))
           ELSE LET i == FirstOffendingRank(ranks) IN
             /\ i /= 0
             /\ \A k \in BadSumRanks(ranks) : i <= k
             /\ NamesRank(checked.error, 9 - i)
             /\ OffendingChars(ranks, i) = {} =>
                  checked.error
                    = "Rank " \o ToString(9 - i) \o " has "
                        \o ToString(RankContentSum(ranks[i], 1))
                        \o " squares, should have 8"

\* C16 witness: an 8-rank board rejected with the diagnostic of a pawn on
\* rank 8 although a lower rank has a wrong sum
C16_Witness ==
  /\ checked.kind = "fen"
  /\ checked.done
  /\ Len(BoardRanksOf(checked.fen)) = 8
  /\ 1 \notin BadSumRanks(BoardRanksOf(checked.fen))
  /\ 7 \in BadSumRanks(BoardRanksOf(checked.fen))
  /\ checked.error = "White pawn on rank 8 is illegal"

\* C16 as stated: every rank whose content does not sum to 8 is named by the
\* diagnostic the board is rejected with
C16_BadRankSumNamesThatRank ==
  (checked.kind = "fen" /\ checked.done) =>
    LET ranks == BoardRanksOf(checked.fen) IN
    \A i \in BadSumRanks(ranks) :
      ~checked.valid /\ NamesRank(checked.error, Len(ranks) + 1 - i)

\* entries of a piece list that name the piece
EntriesOf(list, piece) == { i \in 1..Len(list) : list[i].piece = piece }

\* the piece list names other than one king of a color, or a pawn on a
\* square of rank 1 or 8
ListHasBadKingsOrBackRankPawn(list) ==
  \/ Cardinality(EntriesOf(list, "K")) /= 1
  \/ Cardinality(EntriesOf(list, "k")) /= 1
  \/ \E i \in EntriesOf(list, "P") \cup EntriesOf(list, "p") :
       /\ WellFormedSquare(list[i].square)
       /\ CharAt(list[i].square, 2) \in {"1", "8"}

\* C17 as stated, for the two candidates of a vision response: a run-length
\* string or a piece list with other than one king of a color or with a pawn
\* on rank 1 or 8 is rejected
C17_BadKingsOrBackRankPawnRejected ==
  /\ (checked.kind = "fen" /\ checked.done
        /\ Len(BoardRanksOf(checked.fen)) = 8
        /\ (ViolatesKings(BoardRanksOf(checked.fen))
              \/ ViolatesPawnRank(BoardRanksOf(checked.fen))))
     => ~checked.valid
  /\ (checked.kind = "pieces" /\ checked.done
        /\ ListHasBadKingsOrBackRankPawn(checked.pieces))
     => ~checked.valid

\* the 64 square names
AllSquares == { CharAt(Files, f) \o ToString(r) : f \in 1..8, r \in 1..8 }

\* the rebuilt encoding has 8 ranks of 8 squares
EightByEight(fen) ==
  /\ Len(BoardRanksOf(fen)) = 8
  /\ \A k \in 1..8 : RankSquares(BoardRanksOf(fen)[k], 1) = 8

\* reading the board of fen back square by square gives the piece of every
\* entry of list on its square and nothing on the squares list does not name
ReadsBack(fen, list) ==
  /\ \A i \in 1..Len(list) :
       WellFormedSquare(list[i].square)
         => getFenPieceAtSquare(BoardOf(fen), list[i].square) = list[i].piece
  /\ \A sq \in AllSquares :
       (\A i \in 1..Len(list) : list[i].square /= sq)
         => getFenPieceAtSquare(BoardOf(fen), sq) = Null

\* C18 as stated: for every piece list validatePiecesArray accepts, the board
\* built from it has 8 ranks of 8 squares and reads back, square by square,
\* the listed piece on every listed square and no piece elsewhere
C18_AcceptedListRoundTrips ==
  (checked.kind = "pieces" /\ checked.done /\ checked.error = Null
     /\ checked.rebuilt /= Null)
    => (EightByEight(checked.rebuilt) /\ ReadsBack(checked.rebuilt, checked.pieces))

\* C19: selectHumanMove given one move returns it unchanged as selected and
\* as engineBest; given an empty or a missing list it returns null for both;
\* in both cases it draws no random value
C19_ShortListsPassThrough ==
  (checked.kind = "moves" /\ checked.done) =>
    /\ (checked.variations.defined /\ Len(checked.variations.items) = 1)
         => /\ checked.selection.selected = LichessMove(checked.variations.items[1])
            /\ checked.selection.engineBest = LichessMove(checked.variations.items[1])
            /\ checked.selection.randomDraws = 0
    /\ (~checked.variations.defined \/ Len(checked.variations.items) = 0)
         => /\ checked.selection.selected = NoMove
            /\ checked.selection.engineBest = NoMove
            /\ checked.selection.randomDraws = 0

\* a list of one move without a mate has gone through selectHumanMove
C19_Witness ==
  /\ checked.kind = "moves"
  /\ checked.done
  /\ checked.variations.defined
  /\ Len(checked.variations.items) = 1
  /\ ~checked.variations.items[1].hasMate
  /\ checked.selection.selected.move = "e2e4"

\* C20: whenever the evaluation of the top-ranked move encodes a forced mate,
\* selectHumanMove returns the top-ranked move as selected, for every target
\* rating and every random outcome
C20_TopMateAlwaysSelected ==
  (checked.kind = "moves" /\ checked.done /\ checked.variations.defined
     /\ Len(checked.variations.items) >= 1
     /\ checked.variations.items[1].hasMate)
    => checked.selection.selected = LichessMove(checked.variations.items[1])

\* at the lowest rating, a top move that gets mated ahead of a move without
\* mate has gone through selectHumanMove
C20_Witness ==
  /\ checked.kind = "moves"
  /\ checked.done
  /\ checked.targetElo = 800
  /\ checked.variations.defined
  /\ Len(checked.variations.items) >= 2
  /\ checked.variations.items[1] = PvMated
  /\ ~checked.variations.items[2].hasMate
  /\ checked.selection.selected.move = "e1d1"

\* the ranked moves selectHumanMove was given in the call under check
GivenMoves == LichessMoves(checked.variations.items)

\* the call under check went through the sampling part of selectHumanMove
Sampled == checked.kind = "moves" /\ checked.done /\ checked.sampling /= NoSampling

\* C21: for a non-empty ranked list, whatever the rating and the random
\* outcomes, engineBest is the first element of the input, allMoves is the
\* input list unchanged and selected is an element of the input list
C21_SelectionDrawnFromInput ==
  (checked.kind = "moves" /\ checked.done /\ checked.variations.defined
     /\ Len(checked.variations.items) >= 1)
    => /\ checked.selection.engineBest = GivenMoves[1]
       /\ checked.selection.allMoves = GivenMoves
       /\ \E i \in 1..Len(GivenMoves) : checked.selection.selected = GivenMoves[i]

\* a sampling call selected the third of three moves
C21_Witness ==
  /\ Sampled
  /\ Len(checked.variations.items) = 3
  /\ checked.sampling.selectedIndex = 3
  /\ checked.selection.selected = GivenMoves[3]
  /\ checked.selection.selected /= GivenMoves[1]

\* sum of the entries of a sequence of numbers
RECURSIVE SumOf(_, _)
SumOf(seq, i) == IF i = 0 THEN 0 ELSE seq[i] + SumOf(seq, i - 1)

\* C25: in a call that samples, the normalizing sum is at least 1, the weight
\* of the top move, so the division is never by zero, and the probabilities
\* sum to 1 within the tolerance of the arithmetic (one unit of 1/10000 per
\* move, each quotient being rounded down)
C25_ProbabilitiesSumToOne ==
  Sampled =>
    /\ checked.sampling.weights[1] = 10000
    /\ checked.sampling.sum >= 10000
    /\ checked.sampling.sum = SumOf(checked.sampling.weights, Len(checked.sampling.weights))
    /\ SumOf(checked.sampling.probs, Len(checked.sampling.probs)) <= 10000
    /\ SumOf(checked.sampling.probs, Len(checked.sampling.probs))
         >= 10000 - Len(checked.sampling.probs)

\* a sampling call over three moves of three different weights
C25_Witness ==
  /\ Sampled
  /\ Len(checked.sampling.probs) = 3
  /\ checked.sampling.weights[2] < checked.sampling.weights[1]
  /\ checked.sampling.weights[3] < checked.sampling.weights[2]
  /\ checked.sampling.weights[3] > 0

\* the call under check sampled over e2e4 (0.32), g1f3 (0.20) and d2d4 (0.05)
ThreeCandidates(elo) ==
  /\ Sampled
  /\ checked.targetElo = elo
  /\ checked.variations.items = << PvE4, PvNf3, PvD4 >>

\* C26 as stated: for these candidates the probability of the top move is
\* above 90% at rating 2400 and below 50% at rating 1200, at every temperature
\* of the jitter range
C26_TopMoveAbove90At2400 ==
  /\ ThreeCandidates(2400) => checked.sampling.probs[1] > 9000
  /\ ThreeCandidates(1200) => checked.sampling.probs[1] < 5000

\* C26 amended: for these candidates the probability of the top move lies
\* between 70% and 90% at rating 2400 and is below 50% at rating 1200, at
\* every temperature of the jitter range
C26_TopMoveBetween70And90At2400 ==
  /\ ThreeCandidates(2400)
       => (checked.sampling.probs[1] > 7000 /\ checked.sampling.probs[1] < 9000)
  /\ ThreeCandidates(1200) => checked.sampling.probs[1] < 5000

\* the three candidates were sampled at rating 2400 at the hottest temperature
C26_Witness ==
  /\ ThreeCandidates(2400)
  /\ checked.sampling.tau > 9000
  /\ checked.sampling.probs[1] < 8000

\* C30: in a sampling call every loss is at least 0 and the top move's loss
\* is 0, so no weight exceeds the weight of the top move
C30_LossesNonNegativeTopZero ==
  Sampled =>
    /\ checked.sampling.losses[1] = 0
    /\ \A i \in 1..Len(checked.sampling.losses) :
         /\ checked.sampling.losses[i] >= 0
         /\ checked.sampling.weights[i] <= checked.sampling.weights[1]

\* a sampling call in which a later move is evaluated above the top move
C30_Witness ==
  /\ Sampled
  /\ Len(checked.variations.items) >= 2
  /\ checked.variations.items[1] = PvNf3
  /\ checked.variations.items[2] = PvE4
  /\ checked.sampling.losses[2] = 0

\* a cycle of handleAnalysis resolved a position and ended with an error of
\* the evaluation step
EvaluationFailedAfterResolution ==
  /\ handler = "handleAnalysis"
  /\ pc = "done"
  /\ response.sent
  /\ response.error /= Null
  /\ (domResult.ok \/ evaluation.validation.valid)

\* the squares of the position the cycle resolved
ResolvedBoard ==
  IF domResult.ok THEN SquaresOf(BoardOf(domResult.fenForStockfish))
  ELSE SquaresOf(BoardOf(evaluation.normalizedFen))

\* C22 as stated: when evaluation fails after a position was resolved, the
\* result carries the error and the resolved position: its board, its
\* normalized encoding and its turn, on the page-read and the vision path
C22_FailureCarriesResolvedPosition ==
  EvaluationFailedAfterResolution =>
    /\ response.fen /= Null
    /\ SquaresOf(BoardOf(response.fen)) = ResolvedBoard
    /\ response.fenNormalized /= Null
    /\ SquaresOf(BoardOf(response.fenNormalized)) = ResolvedBoard
    /\ response.turn \in {"w", "b"}

\* C23: the page is read at most once per capture request: the count of page
\* reads of a cycle is still one while the vision retry is in flight, while
\* the secondary evaluation collaborator is asked, and when the cycle is done
C23_PageReadAtMostOncePerCapture ==
  /\ domCalls <= 1
  /\ (handler = "handleAnalysis" /\ (visionCalls = 2 \/ chessApiCalls >= 1 \/ pc = "done"))
       => domCalls = 1

\* a cycle with a vision retry whose evaluation fell back to the secondary
\* collaborator
C23_Witness ==
  /\ handler = "handleAnalysis"
  /\ visionCalls = 2
  /\ chessApiCalls = 1
  /\ pc = "chessApi"
  /\ domCalls = 1

\* the piece on the square of file f (1..8) and rank r (1..8) of an encoding
\* whose board has 8 ranks, '.' for an empty square
PieceOn(fen, f, r) == CharAt(SquaresOf(BoardOf(fen))[9 - r], f)

\* the castling rights the rule of C24 grants to a board of 8 ranks
HomeSquareRights(fen) ==
  (IF PieceOn(fen, 5, 1) = "K" /\ PieceOn(fen, 8, 1) = "R" THEN "K" ELSE "")
  \o (IF PieceOn(fen, 5, 1) = "K" /\ PieceOn(fen, 1, 1) = "R" THEN "Q" ELSE "")
  \o (IF PieceOn(fen, 5, 8) = "k" /\ PieceOn(fen, 8, 8) = "r" THEN "k" ELSE "")
  \o (IF PieceOn(fen, 5, 8) = "k" /\ PieceOn(fen, 1, 8) = "r" THEN "q" ELSE "")

\* the encoding under normalization has 8 ranks and no castling field
CastlingFieldAbsent ==
  /\ checked.kind = "normalize"
  /\ checked.done
  /\ Len(splitWhitespace(checked.fen)) < 3
  /\ Len(BoardRanksOf(checked.fen)) = 8

\* C24: when the castling field is absent, the castling field of the
\* normalized encoding holds exactly the rights whose king and rook are both
\* on their home squares, and is '-' when there is none
C24_CastlingInferredFromHomeSquares ==
  CastlingFieldAbsent =>
    split(checked.rebuilt, " ")[3] =
      (IF HomeSquareRights(checked.fen) = "" THEN "-"
       ELSE HomeSquareRights(checked.fen))

\* an encoding without castling field, the white king off its home square
\* between two rooks at home and the black king at home with one rook
C24_Witness ==
  /\ CastlingFieldAbsent
  /\ split(checked.fen, " ")[1] = "4k2r/8/8/8/8/8/8/R4K1R"
  /\ split(checked.rebuilt, " ")[3] = "k"

\* C27 as stated: once a second call has entered the gateway while the first
\* was awaiting, no primary request is issued inside a cool-down window that
\* was already set, and none less than LICHESS_MIN_INTERVAL after the primary
\* request before it
C27_LimiterHoldsAcrossOverlappingCycles ==
  (overlapping.calls >= 1 /\ evalRequest.to = "primary") =>
    /\ ~(/\ evalRequest.throttledAt >= 0
         /\ evalRequest.at < evalRequest.throttledAt + LICHESS_BACKOFF_TIME)
    /\ evalRequest.at - evalRequest.previousAt >= LICHESS_MIN_INTERVAL

\* the handleCapture calls in progress
CapturesInProgress ==
  { k \in 1..MaxCaptures : panel.stage[k] \in {"settings", "capture", "analyze"} }

\* C28 as stated: in the panel no second capture cycle starts while one is in
\* progress, whichever way it is requested, and the results are shown in the
\* order the captures were requested
C28_OneCaptureCycleAtATime ==
  /\ Cardinality(CapturesInProgress) <= 1
  /\ \A i, j \in 1..Len(panel.displayed) :
       i < j => panel.displayed[i] < panel.displayed[j]

\* the TARGETED RECHECK section written for the class of a diagnostic of
\* validateFEN: rank count and rank sum, invalid character, king, pawn
SectionWrittenFor(error) ==
  CASE DiagnosticRule(error) \in {1, 2} -> "rank sums"
    [] DiagnosticRule(error) = 3 -> "format"
    [] DiagnosticRule(error) = 4 -> "kings"
    [] DiagnosticRule(error) = 5 -> "pawns"
    [] OTHER -> Null

\* C29 as stated: while the retry is in flight, its instruction holds the
\* targeted section written for the class of the diagnostic validateFEN gave
\* for the first attempt; an invalid-character diagnostic gives the format
\* section
C29_RetrySectionMatchesDiagnosticClass ==
  (pc = "vision2" /\ DiagnosticRule(evaluation.validation.error) \in 1..5)
    => prompt.targeted = SectionWrittenFor(evaluation.validation.error)

\* the evaluation of move i of the call is worse than the top move's: a lower
\* number, or a mate against the mover where the top move is a number
WorseThanTop(i) ==
  LET top == GivenMoves[1].evaluation
      ev == GivenMoves[i].evaluation IN
    \/ ev.kind = "number" /\ top.kind = "number" /\ ev.cp < top.cp
    \/ /\ top.kind = "number"
       /\ ev.kind = "string" /\ Len(ev.text) >= 2
       /\ CharAt(ev.text, 1) = "M" /\ CharAt(ev.text, 2) = "-"

\* C31: in a sampling call a lower-ranked move whose evaluation is worse than
\* the top move's, a mate against the mover included, has a strictly positive
\* loss and a weight strictly smaller than the top move's
C31_WorseMoveWeighsLess ==
  Sampled =>
    \A i \in 2..Len(GivenMoves) :
      WorseThanTop(i) => /\ checked.sampling.losses[i] > 0
                         /\ checked.sampling.weights[i] < checked.sampling.weights[1]

\* the ratings selectHumanMove is called with
Ratings == TargetElos \cup {1200, 2600}

\* C32: the base temperature never rises with the rating and is never below 5
\* (500 in units of 1/100), and the temperature of a sampling call lies
\* between 0.85 and 1.15 times the base temperature of its rating (tau in
\* units of 1/1000), so it is strictly positive
C32_TemperatureBoundedAndPositive ==
  Sampled =>
    LET base == baseTemperature(checked.targetElo) IN
      /\ base >= 500
      /\ \A r \in Ratings :
           /\ r >= checked.targetElo => baseTemperature(r) <= base
           /\ r <= checked.targetElo => baseTemperature(r) >= base
      /\ checked.sampling.tau * 10 >= base * 85
      /\ checked.sampling.tau * 10 < base * 115
      /\ checked.sampling.tau > 0

\* a sampling call at a rating where the floor of 5 applies, with the
\* largest jitter
C32_Witness ==
  /\ Sampled
  /\ checked.targetElo = 2600
  /\ baseTemperature(checked.targetElo) = 500
  /\ checked.sampling.tau > 5700

\* the run-length field of the response is valid and its piece list is
\* missing or invalid: empty, refused by validatePiecesArray, holding a
\* malformed square name or two entries for one square, or giving a board
\* validateFEN refuses
OnlyFenValid(value) ==
  /\ FenFieldValidation(value).valid
  /\ \/ ~PiecesResult(value).ok
     \/ HasDuplicateSquare(value.pieces)
     \/ HasMalformedSquare(value.pieces)

\* C33: when the run-length field of the first vision response is valid and
\* its piece list is missing or invalid, the cycle resolves with the
\* run-length candidate, no recovery tag is set and no retry is made
C33_OnlyFenValidResolvesFromFen ==
  /\ (pc = "vision2" => ~OnlyFenValid(visionResult))
  /\ (handler = "handleAnalysis" /\ visionCalls = 1 /\ pc /= "vision1"
        /\ response.error /= "Vision analysis failed: API error"
        /\ OnlyFenValid(visionResult)
      => /\ InGateway
         /\ evaluation.validation.valid
         /\ evaluation.recoveryMethod = Null
         /\ evaluation.fenForStockfish
              = buildFenForAnalysis(visionResult, TRUE).fenWithTurn
         /\ SquaresOf(BoardOf(fenNormalized))
              = SquaresOf(BoardOf(buildFenForAnalysis(visionResult, TRUE).normalized)))

\* the page-reading step has no usable candidate for the tab: the tab is not
\* an applicable page, the reader throws, the reader returns null, or its
\* candidate fails validation
PageReadFails(tab) ==
  \/ tab.site /= "chess.com"
  \/ tab.throws
  \/ ~extractPositionFromDOM(tab.page).ok
  \/ ~validateFEN(normalizeFEN(extractPositionFromDOM(tab.page).fullFen, TRUE)).valid

\* the tabs for which the page-reading step has no usable candidate
FailingTabs == { tab \in Tabs : PageReadFails(tab) }

\* tryDomExtraction returns null for each of them, whatever userColor is
FailingTabsReturnNull ==
  \A tab \in FailingTabs, uc \in UserColors : DomExtracted[tab, uc] = NoDomResult

\* the cycle is past the page-reading step, which returned null
PageReadReturnedNull ==
  handler = "handleAnalysis" /\ pc \notin {"idle", "dom"} /\ ~domResult.ok

\* C34 as stated: every failure of the page-reading step a cycle waits for
\* makes tryDomExtraction return null, and a cycle whose page reading returned null
\* has made its first vision call
C34_FailedPageReadGoesToVision ==
  /\ pc = "dom" => FailingTabsReturnNull
  /\ PageReadReturnedNull => visionCalls >= 1

\* C34 amended: every failure of the page-reading step a cycle waits for
\* makes tryDomExtraction return null, and a cycle whose page reading returned null has made its
\* first vision call unless no provider has an API key, in which case it
\* ended with that error before any vision or evaluation call
C34_FailedPageReadGoesToVisionOrNoKey ==
  /\ pc = "dom" => FailingTabsReturnNull
  /\ PageReadReturnedNull =>
       \/ visionCalls >= 1
       \/ /\ pc = "done"
          /\ response.error = "No API key configured for any provider"
          /\ visionCalls = 0
          /\ lichessCalls = 0
          /\ chessApiCalls = 0

\* a cycle whose page reading returned null waits for its first vision call
C34_Witness ==
  /\ PageReadReturnedNull
  /\ pc = "vision1"
  /\ visionCalls = 1
  /\ domCalls = 1

\* the fields of the text under normalization
GivenFields == splitWhitespace(checked.fen)

\* the normalized encoding is made of six fields joined by single spaces: the
\* board as given, the active color kept if it is 'w' or 'b' and otherwise
\* 'w', the en-passant field '-' unless it is a square on rank 3 or 6, the
\* halfmove clock '0' and the fullmove number '1' unless they are digit
\* strings; and normalizing it again returns it unchanged
SixFieldsNormalized ==
  LET fields == split(checked.rebuilt, " ") IN
    /\ Len(fields) = 6
    /\ \A i \in 1..6 : fields[i] /= ""
    /\ fields[1] = Part(GivenFields, 1)
    /\ fields[2] = (IF Part(GivenFields, 2) \in {"w", "b"} THEN GivenFields[2] ELSE "w")
    /\ fields[4] = (IF /\ Len(GivenFields) >= 4
                        /\ Len(GivenFields[4]) = 2
                        /\ HasChar("abcdefgh", CharAt(GivenFields[4], 1))
                        /\ CharAt(GivenFields[4], 2) \in {"3", "6"}
                     THEN GivenFields[4] ELSE "-")
    /\ fields[5] = (IF Len(GivenFields) >= 5 /\ IsDigitString(GivenFields[5])
                     THEN GivenFields[5] ELSE "0")
    /\ fields[6] = (IF Len(GivenFields) >= 6 /\ IsDigitString(GivenFields[6])
                     THEN GivenFields[6] ELSE "1")
    /\ normalizeFEN(checked.rebuilt, TRUE) = checked.rebuilt

\* C35 as stated: normalizeFEN always returns such an encoding
C35_AlwaysSixFields ==
  (checked.kind = "normalize" /\ checked.done) => SixFieldsNormalized

\* C35 amended: normalizeFEN returns such an encoding for a text that holds
\* at least one field, and the empty string for a text that holds none
C35_SixFieldsUnlessEmpty ==
  (checked.kind = "normalize" /\ checked.done) =>
    IF Len(GivenFields) >= 1 THEN SixFieldsNormalized
    ELSE checked.rebuilt = "" /\ normalizeFEN(checked.rebuilt, TRUE) = ""

\* a text of six fields between runs of spaces was normalized: the en-passant
\* square is kept, the halfmove clock is kept and the fullmove number, which
\* is not a digit string, is replaced
C35_Witness ==
  /\ checked.kind = "normalize"
  /\ checked.done
  /\ checked.fen = "r3k2r/8/8/8/8/8/8/R3K2R  w  -  a6  5  -1 "
  /\ checked.rebuilt = "r3k2r/8/8/8/8/8/8/R3K2R w - a6 5 1"

\* C36: lichessBackoffUntil changes only in the step that receives a 429
\* answer of the primary request, lichessLastRequest changes only in the step
\* that issues a primary request, to the time of that step, and never
\* decreases, and the step that refuses a request in the cool-down window
\* leaves both as they were
C36_LimiterWrittenOnlyByGateway ==
  [][ /\ (lichessBackoffUntil' /= lichessBackoffUntil
            => /\ pc = "lichess"
               /\ evalRequest.to = "primary"
               /\ throttledAt' = clock'
               /\ lichessBackoffUntil' = clock' + LICHESS_BACKOFF_TIME)
      /\ (lichessLastRequest' /= lichessLastRequest
            => /\ pc' = "lichess"
               /\ evalRequest'.to = "primary"
               /\ evalRequest'.at = clock'
               /\ lichessLastRequest' = clock')
      /\ lichessLastRequest' >= lichessLastRequest
      /\ (pc /= "lichess" /\ pc' = "chessApi" /\ lichessEntry'.outcome = "rate limited"
            => /\ lichessLastRequest' = lichessLastRequest
               /\ lichessBackoffUntil' = lichessBackoffUntil) ]_vars

\* a request was refused in the cool-down window after a 429 answer to an
\* earlier primary request
C36_Witness ==
  /\ pc = "chessApi"
  /\ lichessEntry.outcome = "rate limited"
  /\ lichessBackoffUntil = throttledAt + LICHESS_BACKOFF_TIME
  /\ lichessLastRequest = throttledAt
  /\ clock > lichessLastRequest

\* C37: the step that issues the request to the secondary collaborator is
\* either the one in which the primary request of the cycle is answered
\* without moves (an error status or no variation) or the one in which
\* getLichessCloudEval refuses the cycle's call in the cool-down window; and
\* when the primary answers with at least one variation the cycle ends in
\* that step, without a request to the secondary, with the moves of the
\* variations in the order of the answer
C37_SecondaryOnlyAfterPrimary ==
  [][ /\ (evalRequest' /= evalRequest /\ evalRequest'.to = "secondary"
            => /\ chessApiCalls' = 1
               /\ \/ /\ pc = "lichess"
                     /\ evalRequest.to = "primary"
                     /\ lichessCalls' = 1
                     /\ lichessEntry'.outcome \in {"fetch", "delay"}
                  \/ /\ pc /= "lichess"
                     /\ lichessCalls' = 0
                     /\ lichessEntry'.outcome = "rate limited"
                     /\ lichessEntry'.at = clock')
      /\ (pc = "lichess" /\ pc' = "done"
            => /\ response'.hasMoves
               /\ chessApiCalls' = 0
               /\ evalRequest'.to = "primary"
               /\ \E answer \in LichessAnswers :
                    /\ answer.status = 200
                    /\ Len(answer.moves) >= 1
                    /\ Len(response'.moves) = Len(answer.moves)
                    /\ \A k \in 1..Len(answer.moves) :
                         response'.moves[k] = LichessMove(answer.moves[k])
               /\ response'.engineBest = response'.moves[1]) ]_vars

\* the primary answered with two variations: the cycle ended with both
\* moves, the better first, and the secondary was not called
C37_Witness ==
  /\ pc = "done"
  /\ lichessCalls = 1
  /\ chessApiCalls = 0
  /\ response.hasMoves
  /\ Len(response.moves) = 2
  /\ response.moves[1].move = "e2e4"
  /\ response.moves[2].move = "g1f3"

\* the note turn reconciliation leaves for a candidate of active color turn
NoteExpected(turn) ==
  IF userColor /= Null /\ turn /= userColor
    THEN "Turn adjusted to " \o (IF userColor = "w" THEN "White" ELSE "Black")
           \o " (your color)"
    ELSE Null

\* C38: the encoding a cycle evaluates differs from the encoding of its
\* resolved candidate in the active-color field at most (board, castling,
\* en-passant and move counters are the candidate's), and the adjustment note
\* is set exactly when the candidate's active color differs from a supplied
\* userColor
C38_ReconciliationChangesOnlyActiveColor ==
  /\ (handler = "handleAnalysis" /\ ~domResult.ok /\ fenNormalized /= Null) =>
       LET candidate == split(normalizeFEN(evaluation.fenForStockfish, TRUE), " ")
           evaluated == split(fenNormalized, " ") IN
         /\ Len(evaluated) = 6
         /\ \A k \in {1, 3, 4, 5, 6} : evaluated[k] = candidate[k]
         /\ analysisNote = NoteExpected(candidate[2])
  /\ (handler = "handleAnalysis" /\ domResult.ok) =>
       LET evaluated == split(domResult.fenForStockfish, " ") IN
         /\ Len(evaluated) = 6
         /\ evaluated[1] = domResult.fen
         /\ evaluated[2] = (IF userColor /= Null THEN userColor ELSE domResult.turn)
         /\ domResult.analysisNote = NoteExpected(domResult.turn)

\* C39: every handleAnalysis cycle ends with a value handleAnalysis returned,
\* never with a rejection, and the value carries either an error string and
\* no moves, or no error and the list of moves with selectedMove and
\* engineBest: a move of the list and its first move, both null only when
\* the list is empty
C39_AlwaysErrorOrMoves ==
  (handler = "handleAnalysis" /\ pc = "done") =>
    /\ response.sent
    /\ ~response.rejected
    /\ (response.error /= Null) /= response.hasMoves
    /\ response.error /= Null => response.moves = << >>
    /\ response.hasMoves =>
         IF response.moves = << >>
           THEN response.selectedMove = NoMove /\ response.engineBest = NoMove
           ELSE /\ response.engineBest = response.moves[1]
                /\ \E k \in 1..Len(response.moves) :
                     response.selectedMove = response.moves[k]

\* a cycle whose page reading failed, whose first vision response was invalid
\* and whose evaluation threw after a valid retry ended with an error value
C39_Witness ==
  /\ handler = "handleAnalysis"
  /\ pc = "done"
  /\ ~domResult.ok
  /\ visionCalls = 2
  /\ chessApiCalls = 1
  /\ response.error /= Null
  /\ ~response.rejected
  /\ response.fenNormalized /= Null

\* after at least one injection exactly one mousedown handler and one mouseup
\* handler are registered, the ones window names
OneHandlerEach ==
  contentScript.injections >= 1 =>
    /\ Len(contentScript.mousedown) = 1
    /\ Len(contentScript.mouseup) = 1
    /\ contentScript.mousedown[1].id = contentScript.windowMouseDown
    /\ contentScript.mouseup[1].id = contentScript.windowMouseUp
    /\ contentScript.windowMouseDown = contentScript.injections

=============================================================================
